---- MODULE Spec2Model ----
(***************************************************************************)
(* Model of the validation orchestrator of ac-feed-validator:              *)
(* validateClient (src/src/lib/validators/validate-client.ts) driving the  *)
(* OpenAI validator's validateRecord over one uploaded file, with progress *)
(* snapshots, chunked yielding and cooperative cancellation.               *)
(*                                                                         *)
(* The run is single-threaded JavaScript.  Control leaves validateClient   *)
(* only at an await (the file read of parseFileClient, the setTimeout      *)
(* yield of a chunk boundary) and, synchronously, inside an onProgress     *)
(* callback.  The abort signal can therefore change only there.  The       *)
(* record stream of parseJsonl / parseCsv is produced from a string that   *)
(* is already in memory, so the for-await loop that materializes it gives  *)
(* no macrotask a chance to run.  The options onProgress and signal are    *)
(* taken as supplied: snapshots is the log of the values handed to         *)
(* onProgress, in call order, and a run without a signal is a run whose    *)
(* signal is never aborted.                                                *)
(*                                                                         *)
(* A record is known to the model through what the schema makes of it and  *)
(* what detectRawIssues finds in it, as it stands in the file and as it    *)
(* stands after the customMappings renaming of lines 317-330.  The         *)
(* raw-issue preview of lines 332-356 fills rawIssuesMap, which the result *)
(* returns as rawIssues.  Of an issue the model keeps row, field and       *)
(* severity; of the result it keeps success, summary, rawIssues and the    *)
(* two truncation flags.                                                   *)
(*                                                                         *)
(* preValidateClient, the lighter entry point of the same file, is         *)
(* modelled beside validateClient.  Three functions are modelled field by  *)
(* field, each applied step by step under a specification of its own:      *)
(* normalizeRecord (types.ts), the record reconciler; the customMappings   *)
(* renaming of one loop iteration; validateRecord of the OpenAI validator. *)
(***************************************************************************)
EXTENDS Integers, Sequences, FiniteSets, TLC

\* ------------------------------------------------------------------------
\* Program constants
MAX_ISSUES_RETURNED == 100

MAX_VALID_RECORDS_STORED == 10000

\* ------------------------------------------------------------------------
\* Bounds of the model
\* longest small file, in records
MaxRows == 3

\* largest chunkSize option of a small run
MaxChunk == 2

\* a large file ends in MAX_VALID_RECORDS_STORED + d valid records, d in 0..LargeExtra
LargeExtra == 2

\* a large file starts with up to LargeHead records that fail validation
LargeHead == 2

\* undefined / a present value, for optional members and options
Undefined == << >>

Defined(v) == << v >>

\* ------------------------------------------------------------------------
\* Records.  A record is known to the orchestrator only through what
\* openAIFeedSchema.safeParse makes of it: zodIssues is the number of issues
\* safeParse reports (0: the record parses), underMappings what that number
\* becomes once the record's fields are renamed by customMappings, id tells
\* two records apart.  The schema has some sixty fields, each good for an
\* issue, so two records can fill the issue list.
\* rawFindings lists what detectRawIssues finds in the record, finding by
\* finding in the order it pushes them, rawUnderMappings what it finds once
\* the record's fields are renamed; a finding is a number, Finding gives its
\* field, problem and severity.  A record can hold more than twenty: six
\* boolean fields, the URL fields, return_window, every alias, every
\* normalizer.
FromTo(a, b) == [j \in 1 .. (b - a + 1) |-> a + j - 1]

ValidA ==
  [id |-> "a", zodIssues |-> 0, underMappings |-> 0,
   rawFindings |-> << >>, rawUnderMappings |-> << >>]

\* the renaming takes a required field away
ValidB ==
  [id |-> "b", zodIssues |-> 0, underMappings |-> 1,
   rawFindings |-> << 1 >>, rawUnderMappings |-> << 2 >>]

\* the renaming supplies the one required field that is missing
Invalid1 ==
  [id |-> "c", zodIssues |-> 1, underMappings |-> 0,
   rawFindings |-> FromTo(1, 12), rawUnderMappings |-> FromTo(1, 12)]

\* one finding twice: two boolean fields read from one alias
Invalid50 ==
  [id |-> "d", zodIssues |-> 50, underMappings |-> 50,
   rawFindings |-> << 3, 3 >>, rawUnderMappings |-> << 3, 3 >>]

Invalid51 ==
  [id |-> "e", zodIssues |-> 51, underMappings |-> 51,
   rawFindings |-> FromTo(9, 24), rawUnderMappings |-> FromTo(9, 24)]

RecordPool == { ValidA, ValidB, Invalid1, Invalid50, Invalid51 }

\* ------------------------------------------------------------------------
\* Arrays of records (the file's record stream, allRecords, validRecords) are
\* held run-length encoded: << [value |-> x, count |-> 3], [value |-> y,
\* count |-> 1] >> is the array [x, x, x, y].  No two neighbouring runs hold the
\* same value and no run is empty, so two arrays are equal exactly when their
\* encodings are.  Length, At and Push are length, index (1-based) and push.
EmptyArray == << >>

RECURSIVE Length(_)
Length(array) ==
  IF array = << >> THEN 0 ELSE Head(array).count + Length(Tail(array))

RECURSIVE At(_, _)
At(array, k) ==
  IF k <= Head(array).count THEN Head(array).value
  ELSE At(Tail(array), k - Head(array).count)

Push(array, x) ==
  IF array # << >> /\ array[Len(array)].value = x
  THEN [array EXCEPT ![Len(array)].count = @ + 1]
  ELSE Append(array, [value |-> x, count |-> 1])

\* the first n elements: array.slice(0, n)
RECURSIVE ArrayTake(_, _)
ArrayTake(array, n) ==
  IF n = 0 \/ array = << >> THEN EmptyArray
  ELSE IF Head(array).count >= n
       THEN << [value |-> Head(array).value, count |-> n] >>
       ELSE << Head(array) >> \o ArrayTake(Tail(array), n - Head(array).count)

RECURSIVE ArraysUpTo(_, _)
ArraysUpTo(S, n) ==
  IF n = 0 THEN { EmptyArray }
  ELSE LET shorter == ArraysUpTo(S, n - 1)
       IN  shorter \cup { Push(a, x) : a \in { b \in shorter : Length(b) = n - 1 }, x \in S }

SmallFiles == ArraysUpTo(RecordPool, MaxRows)

ChunkSizes == (-1) .. MaxChunk

\* files with as many valid records as validRecords retains, and a few more,
\* behind a few records of 51 issues each
LargeFiles ==
  { Append(head, [value |-> ValidA, count |-> MAX_VALID_RECORDS_STORED + d]) :
      head \in ArraysUpTo({Invalid51}, LargeHead), d \in 0 .. LargeExtra }

\* a chunk boundary right behind the first valid record that is not retained
LargeChunks == { MAX_VALID_RECORDS_STORED + 1 }

\* ------------------------------------------------------------------------
\* The validator registry: openAIValidator is the one validator registered.
validators ==
  [openai |-> [id |-> "openai", supportedFormats |-> << "jsonl", "csv" >>]]

\* Array.from(validators.keys())
getValidatorIds == << "openai" >>

\* validators.get(id)
getValidator(id) ==
  IF id \in DOMAIN validators THEN Defined(validators[id]) ELSE Undefined

ValidatorIds == { "openai", "gemini" }

\* A file name is held as its parts between the dots: feed.CSV.GZ is
\* << "feed", "CSV", "GZ" >>.
FileNames ==
  { << "feed", "jsonl" >>, << "feed", "CSV", "GZ" >>, << "feed", "xml" >>,
    << "feed", "gz" >> }

\* filename.toLowerCase(), part by part
toLowerCase(name) ==
  [k \in DOMAIN name |->
     CASE name[k] = "CSV" -> "csv"
       [] name[k] = "GZ" -> "gz"
       [] OTHER -> name[k]]

\* lower.endsWith("." + the parts of suffix)
EndsWith(name, suffix) ==
  /\ Len(name) > Len(suffix)
  /\ SubSeq(name, Len(name) - Len(suffix) + 1, Len(name)) = suffix

Thrown(error) == [threw |-> TRUE, error |-> error]

Returned(value) == [threw |-> FALSE, value |-> value]

detectFormat(filename) ==
  LET lower == toLowerCase(filename)
  IN  IF EndsWith(lower, << "jsonl", "gz" >>) THEN Returned("jsonl.gz")
      ELSE IF EndsWith(lower, << "csv", "gz" >>) THEN Returned("csv.gz")
      ELSE IF EndsWith(lower, << "jsonl" >>) THEN Returned("jsonl")
      ELSE IF EndsWith(lower, << "csv" >>) THEN Returned("csv")
      ELSE Thrown([message |-> "Unsupported file format: ", filename |-> filename,
                   alternatives |-> Undefined])

\* format.replace(".gz", "")
BaseFormat(format) ==
  CASE format = "jsonl.gz" -> "jsonl"
    [] format = "csv.gz" -> "csv"
    [] OTHER -> format

Gzipped(format) == format \in { "jsonl.gz", "csv.gz" }

\* What is wrong with the content of the file, if anything: the gzip stream
\* does not decode, or the row that follows row - 1 well-formed rows is
\* malformed (a JSONL line that is no JSON, a CSV row Papa reports).
NoFault == [kind |-> "none", row |-> 0]

SourceFaults(records) ==
  { NoFault, [kind |-> "gzip", row |-> 0] }
    \cup { [kind |-> "row", row |-> k] : k \in 1 .. Length(records) + 1 }

\* the customMappings option: absent, or a renaming table
CustomMappings == { Undefined, Defined("sku to item_id") }

VARIABLES
  validatorId,          \* options.validatorId
  fileName,             \* options.file.name
  file,                 \* options.file: the records of its well-formed rows
  sourceFault,          \* what is wrong with the content of options.file
  chunkSize,            \* options.chunkSize
  includeValidRecords,  \* options.includeValidRecords
  customMappings,       \* options.customMappings
  abortedAt,            \* options.signal: "never" while not aborted, else where
                        \* the caller aborted it: "read" (while the file was
                        \* read), "callback" (inside onProgress) or "yield"
  pc,                   \* where validateClient, or preValidateClient, stands
  allRecords,
  totalRows,
  issues,
  validRecords,
  validRows,
  invalidRows,
  errorCount,
  warningCount,
  processedInChunk,
  i,                    \* the loop index of the record loop
  rawIssuesMap,         \* the values of rawIssuesMap, in insertion order
  called,               \* the arguments detectRawIssues and validateRecord
                        \* were called with in the latest loop iteration
  snapshots,            \* the values passed to onProgress, oldest first
  result,               \* the value the run resolves to, or rejects with
  rawRecord,            \* normalizeRecord's record argument
  aliases,              \* normalizeRecord's aliases argument
  normalizers,          \* normalizeRecord's normalizers argument
  defaults,             \* normalizeRecord's defaults argument
  normalized,           \* normalizeRecord's local, and return value
  normalizerCalls,      \* the (field, value) pairs normalizers were called on
  step,                 \* where normalizeRecord stands
  callNumber,           \* which call of normalizeRecord is under way, 0 if none
  rawEntries,           \* Object.entries(record) of one loop iteration
  fieldMappings,        \* options.customMappings, field by field
  mapped,               \* the iteration's mappedRecord
  validatorArgument,    \* the record validator.validateRecord is called with
  mapStep,              \* where that loop iteration stands
  schemaRecord,         \* validateRecord's record argument, field by field
  schemaRow,            \* validateRecord's row argument
  parsed,               \* what openAIFeedSchema.safeParse(record) returned
  validation,           \* what validateRecord returned
  schemaStep,           \* where that validateRecord call stands
  suspended,            \* the locals of a second invocation, while the
                        \* first one runs (and the other way round)
  current,              \* the invocation that is running: 1 or 2
  detectArgument,       \* detectRawIssues' record argument, field by field
  detected,             \* what detectRawIssues returned
  detectStep,           \* where that detectRawIssues call stands
  sourceHeaders,        \* FieldMappingDialog's sourceHeaders prop
  dialogMappings,       \* FieldMappingDialog's mappings state
  confirmed,            \* the mappings handed to onConfirm
  dialogStep            \* where the dialog stands

options ==
  << validatorId, fileName, file, sourceFault, chunkSize, includeValidRecords,
     customMappings >>

\* the state of a normalizeRecord call
nvars ==
  << rawRecord, aliases, normalizers, defaults, normalized, normalizerCalls, step,
     callNumber >>

\* the state of a validateClient, or preValidateClient, run
rvars ==
  << options, abortedAt, pc, allRecords, totalRows, issues, validRecords,
     validRows, invalidRows, errorCount, warningCount, processedInChunk, i,
     called, rawIssuesMap, snapshots, result >>

\* the state of one loop iteration, field by field
mvars == << rawEntries, fieldMappings, mapped, validatorArgument, mapStep >>

\* the state of a validateRecord call of the OpenAI validator
svars == << schemaRecord, schemaRow, parsed, validation, schemaStep >>

\* the second invocation, where two are followed
tvars == << suspended, current >>

\* the state of a detectRawIssues call
dvars == << detectArgument, detected, detectStep >>

\* the state of the field mapping dialog
gvars == << sourceHeaders, dialogMappings, confirmed, dialogStep >>

\* the state of the field-level steps, the second invocation and the dialog
fvars == << mvars, svars, tvars, dvars, gvars >>

vars == << rvars, nvars, fvars >>

\* signal.aborted
aborted == abortedAt # "never"

NoResult == [returned |-> FALSE, rejected |-> FALSE]

\* the run throws: its promise rejects with error
Rejection(error) == [returned |-> FALSE, rejected |-> TRUE, error |-> error]

\* ------------------------------------------------------------------------
\* validateRecord of the OpenAI validator
\* a bug: a record with issues is reported valid
validateRecordLenient(record, row) ==
  [row |-> row, isValid |-> TRUE,
   issues |-> [j \in 1 .. record.zodIssues |->
                 [row |-> row, field |-> j, severity |-> "error"]],
   data |-> Defined(record)]

\* a bug: the first issue of a record is reported as a warning
validateRecordWithWarnings(record, row) ==
  IF record.zodIssues = 0
  THEN [row |-> row, isValid |-> TRUE, issues |-> << >>, data |-> Defined(record)]
  ELSE [row |-> row, isValid |-> FALSE,
        issues |-> [j \in 1 .. record.zodIssues |->
                      [row |-> row, field |-> j,
                       severity |-> IF j = 1 THEN "warning" ELSE "error"]],
        data |-> Undefined]

validateRecord(record, row) ==
  IF record.zodIssues = 0
  THEN [row |-> row, isValid |-> TRUE, issues |-> << >>, data |-> Defined(record)]
  ELSE [row |-> row, isValid |-> FALSE,
        issues |-> [j \in 1 .. record.zodIssues |->
                      [row |-> row, field |-> j, severity |-> "error"]],
        data |-> Undefined]

\* a bug: the severity of an issue is not looked at
CountSeverityBlind(list, severity) == Len(list)

\* if (issue.severity === "error") errorCount++, likewise "warning"
RECURSIVE CountSeverity(_, _)
CountSeverity(list, severity) ==
  IF list = << >> THEN 0
  ELSE (IF Head(list).severity = severity THEN 1 ELSE 0)
       + CountSeverity(Tail(list), severity)

\* a bug: the issues of a record are retained only if all of them fit
PushIssuesWholeRecords(retained, new) ==
  IF Len(retained) + Len(new) <= MAX_ISSUES_RETURNED THEN retained \o new
  ELSE retained

\* a bug: every issue is retained
PushIssuesUncapped(retained, new) == retained \o new

\* for (const issue of result.issues) if (issues.length < MAX) issues.push(issue)
RECURSIVE PushIssues(_, _)
PushIssues(retained, new) ==
  IF new = << >> THEN retained
  ELSE PushIssues(IF Len(retained) < MAX_ISSUES_RETURNED
                  THEN Append(retained, Head(new))
                  ELSE retained,
                  Tail(new))

\* a bug: the cap is tested one record late
PushValidRecordOverCap(retained, res) ==
  IF includeValidRecords /\ Length(retained) <= MAX_VALID_RECORDS_STORED
     /\ res.data # Undefined
  THEN Push(retained, res.data[1])
  ELSE retained

\* if (includeValidRecords && validRecords.length < MAX && result.data) push
PushValidRecord(retained, res) ==
  IF includeValidRecords /\ Length(retained) < MAX_VALID_RECORDS_STORED
     /\ res.data # Undefined
  THEN Push(retained, res.data[1])
  ELSE retained

Snapshot(processed, valid, invalid, errors, warnings, complete, cancelled) ==
  [totalRows |-> totalRows, processedRows |-> processed, validRows |-> valid,
   invalidRows |-> invalid, errorCount |-> errors, warningCount |-> warnings,
   isComplete |-> complete, isCancelled |-> cancelled]

\* the four progress reports of validateClient
InitialSnapshot == Snapshot(0, 0, 0, 0, 0, FALSE, FALSE)

\* a bug: the cancellation report counts the record that was not processed
CancelSnapshotOffByOne ==
  Snapshot(i + 1, validRows, invalidRows, errorCount, warningCount, FALSE, TRUE)

\* a bug: the cancellation report starts from zero
CancelSnapshotReset == Snapshot(i, 0, 0, 0, 0, FALSE, TRUE)

CancelSnapshot ==
  Snapshot(i, validRows, invalidRows, errorCount, warningCount, FALSE, TRUE)

\* a bug: the chunk report reads the row counters of before this record
ChunkSnapshotStale(valid, invalid, errors, warnings) ==
  Snapshot(i + 1, validRows, invalidRows, errors, warnings, FALSE, FALSE)

\* a bug: the rows are counted in one counter for all invocations
ChunkSnapshotCountingAll(valid, invalid, errors, warnings) ==
  Snapshot(i + 1 + (IF suspended = Undefined THEN 0 ELSE suspended.i),
           valid, invalid, errors, warnings, FALSE, FALSE)

ChunkSnapshot(valid, invalid, errors, warnings) ==
  Snapshot(i + 1, valid, invalid, errors, warnings, FALSE, FALSE)

\* a bug: the final report takes its cancellation flag from the signal
FinalSnapshotFlagFromSignal ==
  Snapshot(totalRows, validRows, invalidRows, errorCount, warningCount, TRUE, aborted)

\* a bug: the final report is a copy of the chunk report, flags and all
FinalSnapshotNotComplete ==
  Snapshot(totalRows, validRows, invalidRows, errorCount, warningCount, FALSE, FALSE)

FinalSnapshot ==
  Snapshot(totalRows, validRows, invalidRows, errorCount, warningCount, TRUE, FALSE)

\* a bug: the signal is never seen aborted
SignalNeverAborted == FALSE

\* signal?.aborted
SignalAborted == aborted

\* a bug: the chunk is full one record early
ChunkFullEarly(inChunk) == inChunk >= chunkSize - 1

\* a bug: the chunk is full one record late
ChunkFullLate(inChunk) == inChunk > chunkSize

\* processedInChunk >= chunkSize
ChunkFull(inChunk) == inChunk >= chunkSize

\* onProgress?.(snapshot): the callback runs caller code, which may abort
CallOnProgress(snapshot) ==
  /\ snapshots' = Append(snapshots, snapshot)
  /\ abortedAt' \in {abortedAt} \cup (IF aborted THEN {} ELSE {"callback"})

Summary ==
  [totalRows |-> totalRows, validRows |-> validRows, invalidRows |-> invalidRows,
   errorCount |-> errorCount, warningCount |-> warningCount, issues |-> issues,
   validRecords |-> IF includeValidRecords THEN Defined(validRecords) ELSE Undefined]

CancelledTruncated == TRUE

CancelledValidRecordsTruncated == FALSE

CompletedTruncated == errorCount + warningCount > MAX_ISSUES_RETURNED

CompletedValidRecordsTruncated ==
  includeValidRecords /\ validRows > MAX_VALID_RECORDS_STORED

\* ------------------------------------------------------------------------
\* The renaming of lines 317-330, as the schema sees it.
applyCustomMappings(record) ==
  IF customMappings # Undefined
  THEN [record EXCEPT !.zodIssues = record.underMappings,
                      !.rawFindings = record.rawUnderMappings]
  ELSE record

\* a bug: the raw-issue preview reads the record as it stands in the file
RawPreviewOfFileRecord(record, mappedRecord) == record

\* the record detectRawIssues is called with
RawPreviewRecord(record, mappedRecord) == mappedRecord

\* the rows whose raw issues validateClient previews: if (row <= 10)
RAW_PREVIEW_ROWS == 10

\* the rows whose raw issues preValidateClient previews: if (row <= 20)
PRE_RAW_PREVIEW_ROWS == 20

\* the entries rawIssuesMap may hold
MAX_RAW_ISSUES_PREVIEW == 20

\* a bug: a finding is reported as an error
FindingAsError(k) ==
  [field |-> (k + 1) \div 2,
   problem |-> IF k % 2 = 1 THEN "Boolean as string" ELSE "Field renamed",
   severity |-> "error"]

\* One finding of detectRawIssues.  Its field and problem make the key it is
\* aggregated under; every push in detectRawIssues gives severity "warning"
\* or "info".  The values it carries (original, fixed) are left out.
Finding(k) ==
  [field |-> (k + 1) \div 2,
   problem |-> IF k % 2 = 1 THEN "Boolean as string" ELSE "Field renamed",
   severity |-> IF k % 2 = 1 THEN "warning" ELSE "info"]

\* detectRawIssues(record, validator.fieldAliases, validator.fieldNormalizers)
detectRawIssues(record) ==
  [j \in 1 .. Len(record.rawFindings) |-> Finding(record.rawFindings[j])]

\* `${issue.field}:${issue.problem}`
RawIssueKey(issue) == << issue.field, issue.problem >>

\* a bug: a new key is entered however many the map holds
RECURSIVE AggregateRawIssuesUncapped(_, _)
AggregateRawIssuesUncapped(map, rawDetected) ==
  IF rawDetected = << >> THEN map
  ELSE LET issue == Head(rawDetected)
           existing == { k \in DOMAIN map : RawIssueKey(map[k]) = RawIssueKey(issue) }
           next ==
             IF existing # {}
             THEN [k \in DOMAIN map |->
                     IF k \in existing THEN [map[k] EXCEPT !.count = @ + 1]
                     ELSE map[k]]
             ELSE Append(map, [field |-> issue.field, problem |-> issue.problem,
                               count |-> 1, severity |-> issue.severity])
       IN  AggregateRawIssuesUncapped(next, Tail(rawDetected))

\* for (const issue of rawDetected) { ... existing.count++ ... set(key, ...) }
RECURSIVE AggregateRawIssues(_, _)
AggregateRawIssues(map, rawDetected) ==
  IF rawDetected = << >> THEN map
  ELSE LET issue == Head(rawDetected)
           existing == { k \in DOMAIN map : RawIssueKey(map[k]) = RawIssueKey(issue) }
           next ==
             IF existing # {}
             THEN [k \in DOMAIN map |->
                     IF k \in existing THEN [map[k] EXCEPT !.count = @ + 1]
                     ELSE map[k]]
             ELSE IF Len(map) < MAX_RAW_ISSUES_PREVIEW
             THEN Append(map, [field |-> issue.field, problem |-> issue.problem,
                               count |-> 1, severity |-> issue.severity])
             ELSE map
       IN  AggregateRawIssues(next, Tail(rawDetected))

\* a bug: the raw issues of every row are previewed
PreviewRawIssuesOfEveryRow(map, rawRows, record, row) ==
  AggregateRawIssues(map, detectRawIssues(record))

\* if (row <= 10) { ... }, and if (row <= 20) { ... } of preValidateClient
PreviewRawIssues(map, rawRows, record, row) ==
  IF row <= rawRows THEN AggregateRawIssues(map, detectRawIssues(record)) ELSE map

\* rawIssues.length > 0 ? rawIssues : undefined
RawIssuesOrUndefined(rawIssues) ==
  IF Len(rawIssues) > 0 THEN Defined(rawIssues) ELSE Undefined

NotCalled == [detectRawIssues |-> Undefined, validateRecord |-> Undefined]

\* one loop iteration's calls of detectRawIssues and validateRecord
Calls(rawRows, rawRecordArg, validatedRecord, row) ==
  [detectRawIssues |-> IF row <= rawRows
                       THEN Defined([record |-> rawRecordArg, row |-> row])
                       ELSE Undefined,
   validateRecord |-> Defined([record |-> validatedRecord, row |-> row])]

\* The errors validateClient and preValidateClient throw.  Of a message the
\* model keeps its fixed text and the values spliced into it; alternatives
\* is the list of valid choices the message names, if it names one.
UnknownValidatorListed(id) ==
  [message |-> "Unknown validator: . Available: ", validatorId |-> id,
   alternatives |-> Defined(getValidatorIds)]

UnknownValidator(id) ==
  [message |-> "Unknown validator: ", validatorId |-> id,
   alternatives |-> Undefined]

UnsupportedFileFormat ==
  [message |-> "Unsupported file format. Use .jsonl, .csv, .jsonl.gz, or .csv.gz",
   alternatives |-> Defined(<< "jsonl", "csv", "jsonl.gz", "csv.gz" >>)]

FormatNotSupported(id, baseFormat) ==
  [message |-> "Validator  does not support  format", validatorId |-> id,
   format |-> baseFormat, alternatives |-> Undefined]

GzipError == [message |-> "gzip", alternatives |-> Undefined]

InvalidJson(row) ==
  [message |-> "Invalid JSON on line: ", row |-> row, alternatives |-> Undefined]

CsvParsingError(row) ==
  [message |-> "CSV parsing error at row ", row |-> row, alternatives |-> Undefined]

Includes(list, x) == \E k \in 1 .. Len(list) : list[k] = x

\* a bug: a malformed JSONL line is skipped
ReadRecordsSkippingFaults(format) == [pushed |-> file, threw |-> FALSE]

\* parseFileClient(file) and the loop that pushes its records: the records
\* pushed, and the error thrown if the source fails.  The gzip stream is
\* decoded before any row is read; Papa parses the whole CSV content before
\* the first record is yielded; parseJsonl parses line by line.
ReadRecords(format) ==
  IF Gzipped(format) /\ sourceFault.kind = "gzip"
  THEN [pushed |-> EmptyArray, threw |-> TRUE, error |-> GzipError]
  ELSE IF sourceFault.kind = "row"
  THEN IF BaseFormat(format) = "jsonl"
       THEN [pushed |-> ArrayTake(file, sourceFault.row - 1), threw |-> TRUE,
             error |-> InvalidJson(sourceFault.row)]
       ELSE [pushed |-> EmptyArray, threw |-> TRUE,
             error |-> CsvParsingError(sourceFault.row)]
  ELSE [pushed |-> file, threw |-> FALSE]

\* ------------------------------------------------------------------------
\* no normalizeRecord call is under way
NoCall ==
  /\ rawRecord = << >>
  /\ aliases = << >>
  /\ normalizers = << >>
  /\ defaults = Undefined
  /\ normalized = << >>
  /\ normalizerCalls = {}
  /\ step = "idle"
  /\ callNumber = 0

\* no loop iteration is followed field by field
NoIteration ==
  /\ rawEntries = << >>
  /\ fieldMappings = Undefined
  /\ mapped = << >>
  /\ validatorArgument = Undefined
  /\ mapStep = "idle"

\* no validateRecord call is followed field by field
NoValidation ==
  /\ schemaRecord = << >>
  /\ schemaRow = 0
  /\ parsed = Undefined
  /\ validation = Undefined
  /\ schemaStep = "idle"

\* there is one invocation only
NoOtherRun ==
  /\ suspended = Undefined
  /\ current = 1

\* no detectRawIssues call is followed field by field
NoDetection ==
  /\ detectArgument = << >>
  /\ detected = Undefined
  /\ detectStep = "idle"

\* the field mapping dialog is closed
NoDialog ==
  /\ sourceHeaders = << >>
  /\ dialogMappings = << >>
  /\ confirmed = Undefined
  /\ dialogStep = "closed"

\* no field-level step is under way, no second invocation, no dialog
NoFieldStep == NoIteration /\ NoValidation /\ NoOtherRun /\ NoDetection /\ NoDialog

\* the locals of a run that has just been called
InitRun ==
  /\ abortedAt = "never"
  /\ allRecords = EmptyArray
  /\ totalRows = 0
  /\ issues = << >>
  /\ validRecords = EmptyArray
  /\ validRows = 0
  /\ invalidRows = 0
  /\ errorCount = 0
  /\ warningCount = 0
  /\ processedInChunk = 0
  /\ i = 0
  /\ called = NotCalled
  /\ rawIssuesMap = << >>
  /\ snapshots = << >>
  /\ result = NoResult

\* validateClient is called with the registered validator on a sound file
Init ==
  /\ validatorId = "openai"
  /\ fileName = << "feed", "jsonl" >>
  /\ file \in SmallFiles
  /\ sourceFault = NoFault
  /\ chunkSize \in ChunkSizes
  /\ includeValidRecords \in BOOLEAN
  /\ customMappings \in CustomMappings
  /\ pc = "start"
  /\ InitRun
  /\ NoCall
  /\ NoFieldStep

InitLarge ==
  /\ validatorId = "openai"
  /\ fileName = << "feed", "jsonl" >>
  /\ file \in LargeFiles
  /\ sourceFault = NoFault
  /\ chunkSize \in LargeChunks
  /\ includeValidRecords \in BOOLEAN
  /\ customMappings = Undefined
  /\ pc = "start"
  /\ InitRun
  /\ NoCall
  /\ NoFieldStep

\* validateClient or preValidateClient is called with any validator id, on a
\* file of any name, sound or not
InitAny ==
  /\ validatorId \in ValidatorIds
  /\ fileName \in FileNames
  /\ file \in SmallFiles
  /\ sourceFault \in SourceFaults(file)
  /\ sourceFault.kind = "gzip" =>
       (~detectFormat(fileName).threw /\ Gzipped(detectFormat(fileName).value))
  /\ chunkSize \in { 1 }
  /\ includeValidRecords = TRUE
  /\ customMappings = Undefined
  /\ pc \in { "start", "preStart" }
  /\ InitRun
  /\ NoCall
  /\ NoFieldStep

\* The caller aborts the signal while the run is suspended.
Abort ==
  /\ pc \in {"parse", "yield", "preParse", "preYield"}
  /\ ~aborted
  /\ abortedAt' = IF pc \in {"parse", "preParse"} THEN "read" ELSE "yield"
  /\ UNCHANGED << nvars, fvars, called, rawIssuesMap, options, pc, allRecords, totalRows, issues, validRecords,
                  validRows, invalidRows, errorCount, warningCount,
                  processedInChunk, i, snapshots, result >>

\* validateClient up to its first await: the validator is looked up and the
\* file name checked, then parseFileClient starts to read the file.
Enter ==
  /\ pc = "start"
  /\ LET validator == getValidator(validatorId)
         format == detectFormat(fileName)
     IN  IF validator = Undefined
         THEN /\ result' = Rejection(UnknownValidatorListed(validatorId))
              /\ pc' = "failed"
         ELSE IF format.threw
         THEN /\ result' = Rejection(UnsupportedFileFormat)
              /\ pc' = "failed"
         ELSE IF ~Includes(validator[1].supportedFormats, BaseFormat(format.value))
         THEN /\ result' = Rejection(FormatNotSupported(validatorId,
                                                         BaseFormat(format.value)))
              /\ pc' = "failed"
         ELSE /\ result' = result
              /\ pc' = "parse"
  /\ UNCHANGED << nvars, fvars, called, rawIssuesMap, options, abortedAt, allRecords, totalRows, issues,
                  validRecords, validRows, invalidRows, errorCount, warningCount,
                  processedInChunk, i, snapshots >>

\* a bug: totalRows is read before the records are collected
MaterializeCountsFirst ==
  /\ pc = "parse"
  /\ LET read == ReadRecords(detectFormat(fileName).value)
     IN  /\ allRecords' = read.pushed
         /\ IF read.threw
            THEN /\ result' = Rejection(read.error)
                 /\ pc' = "failed"
                 /\ totalRows' = totalRows
            ELSE /\ result' = result
                 /\ pc' = "report"
                 /\ totalRows' = Length(allRecords)
  /\ UNCHANGED << nvars, fvars, called, rawIssuesMap, options, abortedAt, issues, validRecords, validRows,
                  invalidRows, errorCount, warningCount, processedInChunk, i,
                  snapshots >>

\* await parseFileClient(file); for await (record of parsed.records) push
Materialize ==
  /\ pc = "parse"
  /\ LET read == ReadRecords(detectFormat(fileName).value)
     IN  /\ allRecords' = read.pushed
         /\ IF read.threw
            THEN /\ result' = Rejection(read.error)
                 /\ pc' = "failed"
                 /\ totalRows' = totalRows
            ELSE /\ result' = result
                 /\ pc' = "report"
                 /\ totalRows' = Length(allRecords')
  /\ UNCHANGED << nvars, fvars, called, rawIssuesMap, options, abortedAt, issues, validRecords, validRows,
                  invalidRows, errorCount, warningCount, processedInChunk, i,
                  snapshots >>

ReportInitial ==
  /\ pc = "report"
  /\ CallOnProgress(InitialSnapshot)
  /\ pc' = "loop"
  /\ UNCHANGED << nvars, fvars, called, rawIssuesMap, options, allRecords, totalRows, issues, validRecords, validRows,
                  invalidRows, errorCount, warningCount, processedInChunk, i, result >>

\* if (signal?.aborted) { onProgress(...); return {success: false, ...} }
CancelRun ==
  /\ pc = "loop"
  /\ i < Length(allRecords)
  /\ SignalAborted
  /\ CallOnProgress(CancelSnapshot)
  /\ result' = [returned |-> TRUE, success |-> FALSE, summary |-> Summary,
                rawIssues |-> Defined(rawIssuesMap),
                truncated |-> CancelledTruncated,
                validRecordsTruncated |-> CancelledValidRecordsTruncated]
  /\ pc' = "done"
  /\ UNCHANGED << nvars, fvars, called, rawIssuesMap, options, allRecords, totalRows, issues, validRecords, validRows,
                  invalidRows, errorCount, warningCount, processedInChunk, i >>

\* one iteration of the record loop, up to its yield or its i++
ProcessRecord ==
  /\ pc = "loop"
  /\ i < Length(allRecords)
  /\ ~SignalAborted
  /\ LET record == At(allRecords, i + 1)
         row == i + 1
         mappedRecord == applyCustomMappings(record)
         res == validateRecord(mappedRecord, row)
         valid == IF res.isValid THEN validRows + 1 ELSE validRows
         invalid == IF res.isValid THEN invalidRows ELSE invalidRows + 1
         errors == errorCount + CountSeverity(res.issues, "error")
         warnings == warningCount + CountSeverity(res.issues, "warning")
     IN  /\ validRows' = valid
         /\ invalidRows' = invalid
         /\ validRecords' = IF res.isValid THEN PushValidRecord(validRecords, res)
                            ELSE validRecords
         /\ errorCount' = errors
         /\ warningCount' = warnings
         /\ issues' = PushIssues(issues, res.issues)
         /\ rawIssuesMap' =
              PreviewRawIssues(rawIssuesMap, RAW_PREVIEW_ROWS,
                               RawPreviewRecord(record, mappedRecord), row)
         /\ called' = Calls(RAW_PREVIEW_ROWS, RawPreviewRecord(record, mappedRecord),
                            mappedRecord, row)
         /\ IF ChunkFull(processedInChunk + 1)
            THEN /\ processedInChunk' = 0
                 /\ CallOnProgress(ChunkSnapshot(valid, invalid, errors, warnings))
                 /\ pc' = "yield"
                 /\ i' = i
            ELSE /\ processedInChunk' = processedInChunk + 1
                 /\ pc' = "loop"
                 /\ i' = i + 1
                 /\ UNCHANGED << snapshots, abortedAt >>
  /\ UNCHANGED << nvars, fvars, options, allRecords, totalRows, result >>

\* a bug: the promise the loop awaits at the yield never resolves
ResumeNeverResolved == pc = "yield" /\ UNCHANGED vars

\* the setTimeout(0) promise resolves; the loop runs its i++
Resume ==
  /\ pc = "yield"
  /\ pc' = "loop"
  /\ i' = i + 1
  /\ UNCHANGED << nvars, fvars, called, rawIssuesMap, options, abortedAt, allRecords, totalRows, issues, validRecords,
                  validRows, invalidRows, errorCount, warningCount,
                  processedInChunk, snapshots, result >>

\* the loop condition fails: final progress report and the success result
Complete ==
  /\ pc = "loop"
  /\ ~(i < Length(allRecords))
  /\ CallOnProgress(FinalSnapshot)
  /\ result' = [returned |-> TRUE, success |-> TRUE, summary |-> Summary,
                rawIssues |-> RawIssuesOrUndefined(rawIssuesMap),
                truncated |-> CompletedTruncated,
                validRecordsTruncated |-> CompletedValidRecordsTruncated]
  /\ pc' = "done"
  /\ UNCHANGED << nvars, fvars, called, rawIssuesMap, options, allRecords, totalRows, issues, validRecords, validRows,
                  invalidRows, errorCount, warningCount, processedInChunk, i >>

\* ------------------------------------------------------------------------
\* preValidateClient
PreSnapshot(processed, valid, invalid, complete, cancelled) ==
  [totalRows |-> totalRows, processedRows |-> processed, validRows |-> valid,
   invalidRows |-> invalid, isComplete |-> complete, isCancelled |-> cancelled]

PreResult(analyzed) ==
  [returned |-> TRUE, rejected |-> FALSE, totalRows |-> totalRows,
   analyzedRows |-> analyzed, validRows |-> validRows, invalidRows |-> invalidRows,
   rawIssues |-> rawIssuesMap]

\* preValidateClient up to its first await: the validator is looked up, then
\* parseFileClient calls detectFormat and starts to read the file.
PreEnter ==
  /\ pc = "preStart"
  /\ LET validator == getValidator(validatorId)
         format == detectFormat(fileName)
     IN  IF validator = Undefined
         THEN /\ result' = Rejection(UnknownValidator(validatorId))
              /\ pc' = "preFailed"
         ELSE IF format.threw
         THEN /\ result' = Rejection(format.error)
              /\ pc' = "preFailed"
         ELSE /\ result' = result
              /\ pc' = "preParse"
  /\ UNCHANGED << nvars, fvars, called, rawIssuesMap, options, abortedAt, allRecords, totalRows, issues,
                  validRecords, validRows, invalidRows, errorCount, warningCount,
                  processedInChunk, i, snapshots >>

PreMaterialize ==
  /\ pc = "preParse"
  /\ LET read == ReadRecords(detectFormat(fileName).value)
     IN  /\ allRecords' = read.pushed
         /\ IF read.threw
            THEN /\ result' = Rejection(read.error)
                 /\ pc' = "preFailed"
                 /\ totalRows' = totalRows
            ELSE /\ result' = result
                 /\ pc' = "preReport"
                 /\ totalRows' = Length(allRecords')
  /\ UNCHANGED << nvars, fvars, called, rawIssuesMap, options, abortedAt, issues, validRecords, validRows,
                  invalidRows, errorCount, warningCount, processedInChunk, i,
                  snapshots >>

PreReportInitial ==
  /\ pc = "preReport"
  /\ CallOnProgress(PreSnapshot(0, 0, 0, FALSE, FALSE))
  /\ pc' = "preLoop"
  /\ UNCHANGED << nvars, fvars, called, rawIssuesMap, options, allRecords, totalRows, issues, validRecords,
                  validRows, invalidRows, errorCount, warningCount,
                  processedInChunk, i, result >>

\* if (signal?.aborted) return {...}: no progress report
PreCancelRun ==
  /\ pc = "preLoop"
  /\ i < Length(allRecords)
  /\ SignalAborted
  /\ result' = PreResult(i)
  /\ pc' = "preDone"
  /\ UNCHANGED << nvars, fvars, called, rawIssuesMap, options, abortedAt, allRecords, totalRows, issues,
                  validRecords, validRows, invalidRows, errorCount, warningCount,
                  processedInChunk, i, snapshots >>

\* one iteration of the record loop; the record is validated as it stands in
\* the file (validateRecordRaw ?? validateRecord: the validator has no
\* validateRecordRaw)
PreProcessRecord ==
  /\ pc = "preLoop"
  /\ i < Length(allRecords)
  /\ ~SignalAborted
  /\ LET record == At(allRecords, i + 1)
         row == i + 1
         res == validateRecord(record, row)
         valid == IF res.isValid THEN validRows + 1 ELSE validRows
         invalid == IF res.isValid THEN invalidRows ELSE invalidRows + 1
     IN  /\ validRows' = valid
         /\ invalidRows' = invalid
         /\ rawIssuesMap' =
              PreviewRawIssues(rawIssuesMap, PRE_RAW_PREVIEW_ROWS, record, row)
         /\ called' = Calls(PRE_RAW_PREVIEW_ROWS, record, record, row)
         /\ IF ChunkFull(processedInChunk + 1)
            THEN /\ processedInChunk' = 0
                 /\ CallOnProgress(PreSnapshot(i + 1, valid, invalid, FALSE, FALSE))
                 /\ pc' = "preYield"
                 /\ i' = i
            ELSE /\ processedInChunk' = processedInChunk + 1
                 /\ pc' = "preLoop"
                 /\ i' = i + 1
                 /\ UNCHANGED << snapshots, abortedAt >>
  /\ UNCHANGED << nvars, fvars, options, allRecords, totalRows, issues, validRecords,
                  errorCount, warningCount, result >>

PreResume ==
  /\ pc = "preYield"
  /\ pc' = "preLoop"
  /\ i' = i + 1
  /\ UNCHANGED << nvars, fvars, called, rawIssuesMap, options, abortedAt, allRecords, totalRows, issues,
                  validRecords, validRows, invalidRows, errorCount, warningCount,
                  processedInChunk, snapshots, result >>

PreComplete ==
  /\ pc = "preLoop"
  /\ ~(i < Length(allRecords))
  /\ CallOnProgress(PreSnapshot(totalRows, validRows, invalidRows, TRUE, FALSE))
  /\ result' = PreResult(totalRows)
  /\ pc' = "preDone"
  /\ UNCHANGED << nvars, fvars, called, rawIssuesMap, options, allRecords, totalRows, issues, validRecords,
                  validRows, invalidRows, errorCount, warningCount,
                  processedInChunk, i >>

\* ------------------------------------------------------------------------
Next ==
  \/ Abort
  \/ Enter
  \/ Materialize
  \/ ReportInitial
  \/ CancelRun
  \/ ProcessRecord
  \/ Resume
  \/ Complete

NextPre ==
  \/ Abort
  \/ PreEnter
  \/ PreMaterialize
  \/ PreReportInitial
  \/ PreCancelRun
  \/ PreProcessRecord
  \/ PreResume
  \/ PreComplete

NextAny == Next \/ NextPre

\* validateClient on sound small files
Spec == Init /\ [][Next]_vars

\* validateClient on sound files, large ones included
SpecLarge == (Init \/ InitLarge) /\ [][Next]_vars

\* both entry points, on any validator id, file name and file content
SpecAny == InitAny /\ [][NextAny]_vars

\* ------------------------------------------------------------------------
\* normalizeRecord (types.ts).  A record, like the result, is an object: a
\* function from the names of its fields to their values.  A value is a
\* string; Null is JSON's null.  The order of the keys of an object is not
\* modelled: each loop of normalizeRecord writes a key that depends on no
\* other key written by the same loop.
Null == "<null>"

EmptyObject == << >>

Has(object, key) == key \in DOMAIN object

\* the object with the fields whose value in fields is not Absent
Absent == "<absent>"

Object(fields) ==
  [k \in { n \in DOMAIN fields : fields[n] # Absent } |-> fields[k]]

\* The raw records the function is applied to: price is a canonical field
\* with the aliases cost and amount, title one with the alias name, color a
\* column no table knows.
RawRecords ==
  { Object([price |-> p, cost |-> c, amount |-> m, title |-> t, name |-> n,
            color |-> r]) :
      p \in { Absent, "", "P", Null }, c \in { Absent, "", "C" },
      m \in { Absent, "", "M" }, t \in { Absent, "", "T" },
      n \in { Absent, "N" }, r \in { Absent, "", "R" } }

AliasTables ==
  { [price |-> << "cost", "amount" >>, title |-> << "name" >>],
    [price |-> << "amount", "cost" >>, title |-> << >>] }

NormalizerTables ==
  { EmptyObject, [price |-> "lowercase"], [price |-> "lowercase", title |-> "lowercase"] }

DefaultTables ==
  { Undefined, Defined([price |-> "D"]), Defined([price |-> "D", title |-> "E"]) }

\* a bug: a normalizer that undoes its work when applied again
NormalizerToggling(name, value) ==
  CASE value = "P" -> "p"
    [] value = "p" -> "P"
    [] value = "C" -> "c"
    [] value = "c" -> "C"
    [] OTHER -> value

\* normalizer(value), for the normalizer of that name: a pure function that
\* leaves a value already in canonical form as it is
Normalizer(name, value) ==
  CASE name = "lowercaseText" /\ value = Null -> ""
    [] value = "P" -> "p"
    [] value = "C" -> "c"
    [] value = "M" -> "m"
    [] value = "T" -> "t"
    [] value = "N" -> "n"
    [] value = "D" -> "d"
    [] value = "E" -> "e"
    [] OTHER -> value

\* record[key] !== undefined && record[key] !== ""
NonEmpty(record, key) == Has(record, key) /\ record[key] # ""

\* a bug: the last alias with a value wins
RECURSIVE LastNonEmptyAlias(_, _)
LastNonEmptyAlias(record, aliasList) ==
  IF aliasList = << >> THEN Undefined
  ELSE IF NonEmpty(record, aliasList[Len(aliasList)])
       THEN Defined(record[aliasList[Len(aliasList)]])
       ELSE LastNonEmptyAlias(record, SubSeq(aliasList, 1, Len(aliasList) - 1))

\* for (const alias of aliasList) if (...) { normalized[c] = record[alias]; break }
RECURSIVE FirstNonEmptyAlias(_, _)
FirstNonEmptyAlias(record, aliasList) ==
  IF aliasList = << >> THEN Undefined
  ELSE IF NonEmpty(record, Head(aliasList))
       THEN Defined(record[Head(aliasList)])
       ELSE FirstNonEmptyAlias(record, Tail(aliasList))

\* the first loop: the canonical name itself, else its aliases
ResolveAliases(record, aliasTable) ==
  LET resolved(c) ==
        IF NonEmpty(record, c) THEN Defined(record[c])
        ELSE FirstNonEmptyAlias(record, aliasTable[c])
  IN  [c \in { n \in DOMAIN aliasTable : resolved(n) # Undefined } |-> resolved(c)[1]]

\* aliasList.includes(key), for some aliasList of the table
IsAlias(aliasTable, key) ==
  \E c \in DOMAIN aliasTable : Includes(aliasTable[c], key)

\* a bug: the fields under alias names are copied as well
CopyEveryOtherField(object, record, aliasTable) ==
  [k \in DOMAIN object \cup DOMAIN record |->
     IF Has(object, k) THEN object[k] ELSE record[k]]

\* the second loop: copy any fields that are not in normalized and are no alias
CopyOtherFields(object, record, aliasTable) ==
  [k \in DOMAIN object
         \cup { key \in DOMAIN record : ~Has(object, key) /\ ~IsAlias(aliasTable, key) } |->
     IF Has(object, k) THEN object[k] ELSE record[k]]

\* a bug: a default replaces whatever value the field has
InjectDefaultsOverwriting(object, defaultTable) ==
  IF defaultTable = Undefined THEN object
  ELSE [k \in DOMAIN object \cup DOMAIN defaultTable[1] |->
          IF Has(defaultTable[1], k) THEN defaultTable[1][k] ELSE object[k]]

\* the third loop: if (normalized[key] === undefined || normalized[key] === "")
InjectDefaults(object, defaultTable) ==
  IF defaultTable = Undefined THEN object
  ELSE LET filled == { key \in DOMAIN defaultTable[1] :
                         ~Has(object, key) \/ object[key] = "" }
       IN  [k \in DOMAIN object \cup filled |->
              IF k \in filled THEN defaultTable[1][k] ELSE object[k]]

\* the fields the fourth loop calls a normalizer on: normalized[field] !== undefined
NormalizedFields(object, normalizerTable) == DOMAIN object \cap DOMAIN normalizerTable

\* the fourth loop
ApplyNormalizers(object, normalizerTable) ==
  [k \in DOMAIN object |->
     IF k \in NormalizedFields(object, normalizerTable)
     THEN Normalizer(normalizerTable[k], object[k])
     ELSE object[k]]

normalizeRecord(record, aliasTable, normalizerTable, defaultTable) ==
  ApplyNormalizers(
    InjectDefaults(
      CopyOtherFields(ResolveAliases(record, aliasTable), record, aliasTable),
      defaultTable),
    normalizerTable)

\* no validateClient or preValidateClient run is under way
NoRun ==
  /\ validatorId = "openai"
  /\ fileName = << "feed", "jsonl" >>
  /\ file = EmptyArray
  /\ sourceFault = NoFault
  /\ chunkSize = 1
  /\ includeValidRecords = TRUE
  /\ customMappings = Undefined
  /\ pc = "idle"
  /\ InitRun

\* normalizeRecord is called
InitNormalize ==
  /\ rawRecord \in RawRecords
  /\ aliases \in AliasTables
  /\ normalizers \in NormalizerTables
  /\ defaults \in DefaultTables
  /\ normalized = EmptyObject
  /\ normalizerCalls = {}
  /\ step = "called"
  /\ callNumber = 1
  /\ NoRun
  /\ NoFieldStep

arguments == << rawRecord, aliases, normalizers, defaults >>

\* for (const [canonicalName, aliasList] of Object.entries(aliases)) ...
ResolveStep ==
  /\ step = "called"
  /\ normalized' = ResolveAliases(rawRecord, aliases)
  /\ step' = "resolved"
  /\ UNCHANGED << rvars, fvars, arguments, normalizerCalls, callNumber >>

\* for (const [key, value] of Object.entries(record)) ...
CopyStep ==
  /\ step = "resolved"
  /\ normalized' = CopyOtherFields(normalized, rawRecord, aliases)
  /\ step' = "copied"
  /\ UNCHANGED << rvars, fvars, arguments, normalizerCalls, callNumber >>

\* if (defaults) for (const [key, defaultValue] of Object.entries(defaults)) ...
DefaultStep ==
  /\ step = "copied"
  /\ normalized' = InjectDefaults(normalized, defaults)
  /\ step' = "defaulted"
  /\ UNCHANGED << rvars, fvars, arguments, normalizerCalls, callNumber >>

\* for (const [field, normalizer] of Object.entries(normalizers)) ...; return
NormalizeStep ==
  /\ step = "defaulted"
  /\ normalized' = ApplyNormalizers(normalized, normalizers)
  /\ normalizerCalls' = { [field |-> k, value |-> normalized[k]] :
                            k \in NormalizedFields(normalized, normalizers) }
  /\ step' = "returned"
  /\ UNCHANGED << rvars, fvars, arguments, callNumber >>

NextNormalize ==
  \/ ResolveStep
  \/ CopyStep
  \/ DefaultStep
  \/ NormalizeStep

SpecNormalize == InitNormalize /\ [][NextNormalize]_vars

\* normalizeRecord applied to its own output, with the same tables.  The
\* tables here include a normalizer that turns null into "" (lowercaseText,
\* as String(value ?? "").toLowerCase() does) and an alias table in which a
\* canonical name is an alias of another field.
TwiceAliasTables ==
  AliasTables \cup { [price |-> << "cost" >>, cost |-> << "amount" >>] }

TwiceNormalizerTables ==
  NormalizerTables \cup { [price |-> "lowercaseText"] }

InitTwice ==
  /\ rawRecord \in RawRecords
  /\ aliases \in TwiceAliasTables
  /\ normalizers \in TwiceNormalizerTables
  /\ defaults \in DefaultTables
  /\ normalized = EmptyObject
  /\ normalizerCalls = {}
  /\ step = "called"
  /\ callNumber = 1
  /\ NoRun
  /\ NoFieldStep

\* normalizeRecord(normalizeRecord(record, ...), ...): the second call
CallAgain ==
  /\ step = "returned"
  /\ callNumber = 1
  /\ rawRecord' = normalized
  /\ normalized' = EmptyObject
  /\ normalizerCalls' = {}
  /\ step' = "called"
  /\ callNumber' = 2
  /\ UNCHANGED << rvars, fvars, aliases, normalizers, defaults >>

NextTwice ==
  \/ NextNormalize
  \/ CallAgain

SpecTwice == InitTwice /\ [][NextTwice]_vars

\* ------------------------------------------------------------------------
\* One loop iteration of validateClient, field by field: the custom mappings
\* are applied to the record and the validator is called.  An object is a
\* function of its keys; Object.entries(record) lists the record's fields in
\* the record's own key order, which decides which of two fields written to
\* one key of mappedRecord is kept.
MappingKeys == { "sku", "item_id", "title" }

MappingValues == { "A1", "B2" }

\* the target of a mapping entry; "" is a string as any other for the type
MappingTargets == { "item_id", "title", "" }

MaxFields == 3

\* Object.entries(record), for the records of at most MaxFields fields
RecordEntries ==
  { entries \in UNION { [1 .. n -> [key : MappingKeys, value : MappingValues]] :
                          n \in 0 .. MaxFields } :
      \A a, b \in DOMAIN entries : a # b => entries[a].key # entries[b].key }

\* customMappings?: Record<string, string> | null
FieldMappings ==
  { Undefined } \cup
  { Defined(m) : m \in UNION { [D -> MappingTargets] : D \in SUBSET MappingKeys } }

\* object[key] = value
Assign(object, key, value) ==
  [k \in DOMAIN object \cup { key } |-> IF k = key THEN value ELSE object[k]]

\* the record the entries were listed from
RECURSIVE FromEntries(_)
FromEntries(entries) ==
  IF entries = << >> THEN EmptyObject
  ELSE Assign(FromEntries(SubSeq(entries, 1, Len(entries) - 1)),
              entries[Len(entries)].key, entries[Len(entries)].value)

\* if (targetField): undefined and "" are falsy
Truthy(mapping, sourceField) == Has(mapping, sourceField) /\ mapping[sourceField] # ""

\* for (const [sourceField, value] of Object.entries(record)) ...
RECURSIVE RenameFields(_, _, _)
RenameFields(entries, mapping, mappedRecord) ==
  IF entries = << >> THEN mappedRecord
  ELSE LET sourceField == Head(entries).key
           value == Head(entries).value
           targetField == IF Truthy(mapping, sourceField)
                          THEN mapping[sourceField] ELSE sourceField
       IN  RenameFields(Tail(entries), mapping,
                        Assign(mappedRecord, targetField, value))

\* let mappedRecord = record; if (customMappings) { mappedRecord = {}; ... }
MappedRecord(entries, mappings) ==
  IF mappings = Undefined THEN FromEntries(entries)
  ELSE RenameFields(entries, mappings[1], EmptyObject)

\* the loop reaches a record, with or without custom mappings
InitMapping ==
  /\ rawEntries \in RecordEntries
  /\ fieldMappings \in FieldMappings
  /\ mapped = << >>
  /\ validatorArgument = Undefined
  /\ mapStep = "record"
  /\ NoRun
  /\ NoCall
  /\ NoValidation
  /\ NoOtherRun
  /\ NoDetection
  /\ NoDialog

\* lines 317-330: mappedRecord is built
MapFields ==
  /\ mapStep = "record"
  /\ mapped' = MappedRecord(rawEntries, fieldMappings)
  /\ mapStep' = "mapped"
  /\ UNCHANGED << rvars, nvars, svars, tvars, dvars, gvars, rawEntries, fieldMappings, validatorArgument >>

\* line 358: validator.validateRecord(mappedRecord, row)
CallValidateRecord ==
  /\ mapStep = "mapped"
  /\ validatorArgument' = Defined(mapped)
  /\ mapStep' = "validated"
  /\ UNCHANGED << rvars, nvars, svars, tvars, dvars, gvars, rawEntries, fieldMappings, mapped >>

NextMapping ==
  \/ MapFields
  \/ CallValidateRecord

SpecMapping == InitMapping /\ [][NextMapping]_vars

\* ------------------------------------------------------------------------
\* validateRecord of the OpenAI validator, field by field.  A value is held
\* with its JavaScript type and its text: the number 14 and the string "14"
\* are Num("14") and Str("14").  Of the schema's fields the model keeps the
\* ones its cross-field rules read and one or two of each kind of rule
\* (required string, optional URL, enumeration, date, price, number or
\* digits, boolean or "true"/"false", with and without transform); a record
\* is taken to hold every other required field with a good value.
Bool(b) == [type |-> "boolean", repr |-> IF b THEN "true" ELSE "false"]

Num(text) == [type |-> "number", repr |-> text]

Str(text) == [type |-> "string", repr |-> text]

\* undefined: what record[key] gives for a key the record does not hold
Missing == [type |-> "undefined", repr |-> ""]

Get(object, key) == IF Has(object, key) THEN object[key] ELSE Missing

SchemaObject(fields) ==
  [k \in { f \in DOMAIN fields : fields[f] # Missing } |-> fields[k]]

\* the modelled fields, in the order the schema declares them
SchemaFieldOrder ==
  << "is_eligible_checkout", "item_id", "price", "sale_price", "availability",
     "availability_date", "store_name", "seller_privacy_policy", "seller_tos",
     "return_window", "accepts_returns", "review_count" >>

SchemaFields == { SchemaFieldOrder[j] : j \in DOMAIN SchemaFieldOrder }

\* the fields not marked .optional()
RequiredFields ==
  { "is_eligible_checkout", "item_id", "price", "availability", "return_window" }

UrlLiterals == { "https://shop.example/terms", "https://shop.example/privacy" }

DateLiterals == { "2026-01-01" }

PriceLiterals == { "10.00 USD", "12.00 USD" }

DigitLiterals == { "3", "14" }

\* the records validateRecord is called with
SchemaRecords ==
  { SchemaObject(fields) :
      fields \in
        [is_eligible_checkout : { Bool(TRUE), Bool(FALSE), Str("true"), Str("false"),
                                  Str("yes") },
         item_id : { Str("A1"), Str(""), Missing },
         price : { Num("10"), Str("10.00 USD") },
         sale_price : { Missing, Num("8"), Str("12.00 USD") },
         availability : { Str("in_stock"), Str("pre_order") },
         availability_date : { Missing, Str("2026-01-01") },
         store_name : { Missing, Str(""), Str("Shop") },
         seller_privacy_policy : { Missing, Str("https://shop.example/privacy") },
         seller_tos : { Missing, Str("https://shop.example/terms") },
         return_window : { Num("14"), Str("14") },
         accepts_returns : { Bool(TRUE), Str("true") },
         review_count : { Num("3"), Str("3") }] }

SchemaRows == { 1, 2 }

\* z.union([z.boolean(), z.enum(["true", "false"])])
BooleanOrString(v) ==
  v.type = "boolean" \/ (v.type = "string" /\ v.repr \in { "true", "false" })

\* z.union([z.number()..., z.string().regex(/^\d+$/)])
NumberOrDigits(v) ==
  v.type = "number" \/ (v.type = "string" /\ v.repr \in DigitLiterals)

\* priceSchema: a positive number or a string "amount CUR"
PriceOrString(v) ==
  (v.type = "number" /\ v.repr \notin { "0" }) \/
  (v.type = "string" /\ v.repr \in PriceLiterals)

\* What a field's schema makes of the value v: "valid"; "dirty" when the value
\* has the field's type and fails one of its checks (min, url, regex), which
\* lets the refinements of the object still run; "aborted" when no type of
\* the field fits, which stops the parse of the object before them.
FieldStatus(field, v) ==
  IF v = Missing THEN (IF field \in RequiredFields THEN "aborted" ELSE "valid")
  ELSE CASE field \in { "is_eligible_checkout", "accepts_returns" } ->
              IF BooleanOrString(v) THEN "valid" ELSE "aborted"
         [] field = "item_id" ->
              IF v.type # "string" THEN "aborted"
              ELSE IF v.repr = "" THEN "dirty" ELSE "valid"
         [] field = "store_name" ->
              IF v.type = "string" THEN "valid" ELSE "aborted"
         [] field \in { "seller_privacy_policy", "seller_tos" } ->
              IF v.type # "string" THEN "aborted"
              ELSE IF v.repr \in UrlLiterals THEN "valid" ELSE "dirty"
         [] field = "availability" ->
              IF v.type = "string" /\ v.repr \in { "in_stock", "out_of_stock",
                                                    "pre_order", "backorder", "unknown" }
              THEN "valid" ELSE "aborted"
         [] field = "availability_date" ->
              IF v.type # "string" THEN "aborted"
              ELSE IF v.repr \in DateLiterals THEN "valid" ELSE "dirty"
         [] field \in { "price", "sale_price" } ->
              IF PriceOrString(v) THEN "valid" ELSE "aborted"
         [] field \in { "return_window", "review_count" } ->
              IF NumberOrDigits(v) THEN "valid" ELSE "aborted"

\* a bug: the control flag is returned as it was given
KeepAsGiven(v) == v

\* .transform(v => v === true || v === "true")
ToBoolean(v) == Bool(v = Bool(TRUE) \/ v = Str("true"))

\* .transform(v => Number(v)), on a number or a string of digits
ToNumber(v) == Num(v.repr)

\* the value the parse returns for a field: only the two control flags and
\* return_window have a transform
FieldOutput(field, v) ==
  IF field \in { "is_eligible_search", "is_eligible_checkout" } THEN ToBoolean(v)
  ELSE IF field = "return_window" THEN ToNumber(v)
  ELSE v

\* !!value, and if (value)
Truthiness(v) ==
  CASE v.type = "undefined" -> FALSE
    [] v.type = "boolean" -> v.repr = "true"
    [] v.type = "string" -> v.repr # ""
    [] v.type = "number" -> v.repr # "0"

\* typeof v === "number" ? v : parseFloat(v), in cents
Amount(v) ==
  CASE v.repr \in { "8" } -> 800
    [] v.repr \in { "10", "10.00 USD" } -> 1000
    [] v.repr \in { "12.00 USD" } -> 1200

\* the three .refine() rules of the object, in order
CheckoutRule(data) ==
  Truthiness(Get(data, "is_eligible_checkout")) =>
    /\ Truthiness(Get(data, "seller_privacy_policy"))
    /\ Truthiness(Get(data, "seller_tos"))
    /\ Truthiness(Get(data, "store_name"))

PreOrderRule(data) ==
  Get(data, "availability") = Str("pre_order") =>
    Truthiness(Get(data, "availability_date"))

SalePriceRule(data) ==
  (Has(data, "sale_price") /\ Has(data, "price")) =>
    Amount(data["sale_price"]) <= Amount(data["price"])

RefinementOrder == << "checkout", "pre_order", "sale_price" >>

RefinementHolds(rule, data) ==
  CASE rule = "checkout" -> CheckoutRule(data)
    [] rule = "pre_order" -> PreOrderRule(data)
    [] rule = "sale_price" -> SalePriceRule(data)

RefinementMessage(rule) ==
  CASE rule = "checkout" ->
         "Checkout-enabled products require seller_privacy_policy, seller_tos, and store_name"
    [] rule = "pre_order" -> "Pre-order products require availability_date"
    [] rule = "sale_price" -> "sale_price must be less than or equal to price"

\* openAIFeedSchema.safeParse(record)
safeParse(record) ==
  LET Failing(field) == FieldStatus(field, Get(record, field)) # "valid"
      failing == SelectSeq(SchemaFieldOrder, Failing)
      objectAborted ==
        \E field \in SchemaFields : FieldStatus(field, Get(record, field)) = "aborted"
      data == [field \in DOMAIN record \cap SchemaFields |->
                 FieldOutput(field, record[field])]
      Violated(rule) == ~RefinementHolds(rule, data)
      violated == IF objectAborted THEN << >> ELSE SelectSeq(RefinementOrder, Violated)
      zodIssues ==
        [j \in 1 .. Len(failing) |-> [path |-> failing[j], message |-> "Invalid input"]]
        \o [j \in 1 .. Len(violated) |->
              [path |-> "", message |-> RefinementMessage(violated[j])]]
  IN  IF zodIssues = << >> THEN [success |-> TRUE, data |-> data]
      ELSE [success |-> FALSE, issues |-> zodIssues]

\* a bug: the issues are stamped with the row before
ResultOfParseOffByOne(parseResult, row) ==
  IF parseResult.success
  THEN [row |-> row, isValid |-> TRUE, issues |-> << >>, data |-> Defined(parseResult.data)]
  ELSE [row |-> row, isValid |-> FALSE,
        issues |-> [j \in DOMAIN parseResult.issues |->
                      [row |-> row - 1, field |-> parseResult.issues[j].path,
                       message |-> parseResult.issues[j].message, severity |-> "error"]],
        data |-> Undefined]

\* validateRecord behind its safeParse call; of an issue the value is left out
ResultOfParse(parseResult, row) ==
  IF parseResult.success
  THEN [row |-> row, isValid |-> TRUE, issues |-> << >>, data |-> Defined(parseResult.data)]
  ELSE [row |-> row, isValid |-> FALSE,
        issues |-> [j \in DOMAIN parseResult.issues |->
                      [row |-> row, field |-> parseResult.issues[j].path,
                       message |-> parseResult.issues[j].message, severity |-> "error"]],
        data |-> Undefined]

\* validateRecord is called
InitSchema ==
  /\ schemaRecord \in SchemaRecords
  /\ schemaRow \in SchemaRows
  /\ parsed = Undefined
  /\ validation = Undefined
  /\ schemaStep = "called"
  /\ NoRun
  /\ NoCall
  /\ NoIteration
  /\ NoOtherRun
  /\ NoDetection
  /\ NoDialog

\* const result = openAIFeedSchema.safeParse(record)
SafeParse ==
  /\ schemaStep = "called"
  /\ parsed' = Defined(safeParse(schemaRecord))
  /\ schemaStep' = "parsed"
  /\ UNCHANGED << rvars, nvars, mvars, tvars, dvars, gvars, schemaRecord, schemaRow, validation >>

\* if (result.success) return {...}; ...; return {...}
ReturnValidation ==
  /\ schemaStep = "parsed"
  /\ validation' = Defined(ResultOfParse(parsed[1], schemaRow))
  /\ schemaStep' = "returned"
  /\ UNCHANGED << rvars, nvars, mvars, tvars, dvars, gvars, schemaRecord, schemaRow, parsed >>

NextSchema ==
  \/ SafeParse
  \/ ReturnValidation

SpecSchema == InitSchema /\ [][NextSchema]_vars

\* ------------------------------------------------------------------------
\* Two invocations, each of validateClient or of preValidateClient, under
\* way at once.  JavaScript runs one of
\* them at a time, up to its next await (the file read, the yield of a chunk
\* boundary) or its return; the other one is suspended there, its locals and
\* arguments kept in its own activation.  The variables of the run hold the
\* invocation that is running, suspended the one that is not.  Everything a
\* run reads and writes is declared inside validateClient (lines 208-255)
\* or preValidateClient (lines 492-506);
\* the one module-level object it reads, the validators registry, is written
\* at load time only.
Locals ==
  [validatorId |-> validatorId, fileName |-> fileName, file |-> file,
   sourceFault |-> sourceFault, chunkSize |-> chunkSize,
   includeValidRecords |-> includeValidRecords, customMappings |-> customMappings,
   abortedAt |-> abortedAt, pc |-> pc, allRecords |-> allRecords,
   totalRows |-> totalRows, issues |-> issues, validRecords |-> validRecords,
   validRows |-> validRows, invalidRows |-> invalidRows, errorCount |-> errorCount,
   warningCount |-> warningCount, processedInChunk |-> processedInChunk, i |-> i,
   called |-> called, rawIssuesMap |-> rawIssuesMap, snapshots |-> snapshots,
   result |-> result]

\* a bug: rawIssuesMap is one map of the module, shared by the invocations
ResumedSharingRawIssues == [suspended EXCEPT !.rawIssuesMap = rawIssuesMap]

\* the locals the invocation that resumes finds: its own
Resumed == suspended

TwoRunFiles ==
  { Push(Push(Push(EmptyArray, ValidB), Invalid1), Invalid51),
    Push(Push(EmptyArray, Invalid1), ValidA),
    Push(EmptyArray, ValidA) }

TwoRunChunks == { 1, 2 }

\* the locals of an invocation that has just been called
CalledWith(entry, records, chunk) ==
  [validatorId |-> "openai", fileName |-> << "feed", "jsonl" >>, file |-> records,
   sourceFault |-> NoFault, chunkSize |-> chunk, includeValidRecords |-> TRUE,
   customMappings |-> Undefined, abortedAt |-> "never", pc |-> entry,
   allRecords |-> EmptyArray, totalRows |-> 0, issues |-> << >>,
   validRecords |-> EmptyArray, validRows |-> 0, invalidRows |-> 0,
   errorCount |-> 0, warningCount |-> 0, processedInChunk |-> 0, i |-> 0,
   called |-> NotCalled, rawIssuesMap |-> << >>, snapshots |-> << >>,
   result |-> NoResult]

\* two calls, each of validateClient or preValidateClient, each with a file,
\* a chunk size and a signal of its own
InitTwo ==
  /\ validatorId = "openai"
  /\ fileName = << "feed", "jsonl" >>
  /\ file \in TwoRunFiles
  /\ sourceFault = NoFault
  /\ chunkSize \in TwoRunChunks
  /\ includeValidRecords = TRUE
  /\ customMappings = Undefined
  /\ pc \in { "start", "preStart" }
  /\ InitRun
  /\ NoCall
  /\ NoIteration
  /\ NoValidation
  /\ NoDetection
  /\ NoDialog
  /\ suspended \in { CalledWith(entry, records, chunk) :
                       entry \in { "start", "preStart" },
                       records \in TwoRunFiles, chunk \in TwoRunChunks }
  /\ current = 1

\* The running invocation awaits or has returned; the other one resumes.
Switch ==
  /\ pc \in { "parse", "yield", "done", "failed",
             "preParse", "preYield", "preDone", "preFailed" }
  /\ suspended.pc \notin { "done", "failed", "preDone", "preFailed" }
  /\ suspended' = Locals
  /\ current' = 3 - current
  /\ validatorId' = Resumed.validatorId
  /\ fileName' = Resumed.fileName
  /\ file' = Resumed.file
  /\ sourceFault' = Resumed.sourceFault
  /\ chunkSize' = Resumed.chunkSize
  /\ includeValidRecords' = Resumed.includeValidRecords
  /\ customMappings' = Resumed.customMappings
  /\ abortedAt' = Resumed.abortedAt
  /\ pc' = Resumed.pc
  /\ allRecords' = Resumed.allRecords
  /\ totalRows' = Resumed.totalRows
  /\ issues' = Resumed.issues
  /\ validRecords' = Resumed.validRecords
  /\ validRows' = Resumed.validRows
  /\ invalidRows' = Resumed.invalidRows
  /\ errorCount' = Resumed.errorCount
  /\ warningCount' = Resumed.warningCount
  /\ processedInChunk' = Resumed.processedInChunk
  /\ i' = Resumed.i
  /\ called' = Resumed.called
  /\ rawIssuesMap' = Resumed.rawIssuesMap
  /\ snapshots' = Resumed.snapshots
  /\ result' = Resumed.result
  /\ UNCHANGED << nvars, mvars, svars, dvars, gvars >>

NextTwo ==
  \/ NextAny
  \/ Switch

SpecTwo == InitTwo /\ [][NextTwo]_vars

\* ------------------------------------------------------------------------
\* Files that reach beyond the rows whose raw issues are previewed: as many
\* records as validateClient, or preValidateClient, previews, or one fewer,
\* and up to MaxTail records behind them.
\* most records behind the head of such a file
MaxTail == 2

PreviewHeads ==
  { << [value |-> x, count |-> n] >> :
      x \in { ValidA, ValidB },
      n \in { RAW_PREVIEW_ROWS - 1, RAW_PREVIEW_ROWS,
              PRE_RAW_PREVIEW_ROWS - 1, PRE_RAW_PREVIEW_ROWS } }

RECURSIVE Extended(_, _, _)
Extended(arrays, S, n) ==
  IF n = 0 THEN arrays
  ELSE LET shorter == Extended(arrays, S, n - 1)
       IN  shorter \cup { Push(a, x) : a \in shorter, x \in S }

PreviewFiles == Extended(PreviewHeads, RecordPool, MaxTail)

PreviewChunks == { 4 }

\* validateClient or preValidateClient is called on such a file
InitPreview ==
  /\ validatorId = "openai"
  /\ fileName = << "feed", "jsonl" >>
  /\ file \in PreviewFiles
  /\ sourceFault = NoFault
  /\ chunkSize \in PreviewChunks
  /\ includeValidRecords = FALSE
  /\ customMappings = Undefined
  /\ pc \in { "start", "preStart" }
  /\ InitRun
  /\ NoCall
  /\ NoFieldStep

\* both entry points, on files longer than the previewed rows
SpecPreview == InitPreview /\ [][NextAny]_vars

\* ------------------------------------------------------------------------
\* detectRawIssues, field by field.  The record is an object as normalizeRecord
\* and validateRecord see it; a finding keeps field, problem, fixed and
\* severity (original is left out), the canonical name of a rename finding
\* being its fixed value as in the source.
BOOLEAN_FIELDS ==
  << "is_eligible_search", "is_eligible_checkout", "listing_has_variations",
     "accepts_returns", "accepts_exchanges", "is_digital" >>

URL_FIELDS ==
  << "url", "image_url", "seller_url", "return_policy", "seller_privacy_policy",
     "seller_tos", "warning_url" >>

\* fixed: undefined
NoFix == "<undefined>"

\* Object.entries(table) lists the keys of a table in this order
TableKeyOrder == << "price", "title" >>

KeysOf(table) ==
  LET Declared(k) == Has(table, k)
  IN  SelectSeq(TableKeyOrder, Declared)

\* fieldAliases[fieldName] ?? []
AliasesOf(fieldAliases, fieldName) ==
  IF Has(fieldAliases, fieldName) THEN fieldAliases[fieldName] ELSE << >>

\* for (const alias of aliases) if (record[alias] !== undefined) return ...
RECURSIVE FirstPresent(_, _)
FirstPresent(record, aliasList) ==
  IF aliasList = << >> THEN Undefined
  ELSE IF Has(record, Head(aliasList))
       THEN Defined([value |-> record[Head(aliasList)], actualField |-> Head(aliasList)])
       ELSE FirstPresent(record, Tail(aliasList))

getFieldValue(record, fieldAliases, fieldName) ==
  IF Has(record, fieldName)
  THEN Defined([value |-> record[fieldName], actualField |-> fieldName])
  ELSE FirstPresent(record, AliasesOf(fieldAliases, fieldName))

\* text.toLowerCase(), for the texts of the model
LowerCase(text) ==
  CASE text = "TRUE" -> "true"
    [] text = "False" -> "false"
    [] text = "HTTP://LOCALHOST/terms" -> "http://localhost/terms"
    [] text = "Price" -> "price"
    [] OTHER -> text

\* typeof value === "string" && ["true", "false", "1", "0"].includes(strVal)
WillConvert(v) ==
  v.type = "string" /\ LowerCase(v.repr) \in { "true", "false", "1", "0" }

\* ["true", "1"].includes(strVal)
ConvertsTo(v) == IF LowerCase(v.repr) \in { "true", "1" } THEN "true" ELSE "false"

\* lines 94-109
BooleanFindings(record, fieldAliases) ==
  LET Found(field) == getFieldValue(record, fieldAliases, field)
      Pushes(field) == Found(field) # Undefined /\ WillConvert(Found(field)[1].value)
      fields == SelectSeq(BOOLEAN_FIELDS, Pushes)
  IN  [j \in 1 .. Len(fields) |->
         [field |-> Found(fields[j])[1].actualField,
          problem |-> "Boolean as string will convert to",
          fixed |-> ConvertsTo(Found(fields[j])[1].value),
          severity |-> "warning"]]

\* url.includes("localhost") || url.includes("127.0.0.1")
ContainsLocalhost(v) ==
  v.type = "string"
  /\ LowerCase(v.repr) \in { "http://localhost/terms", "http://127.0.0.1/terms" }

\* lines 111-126
UrlFindings(record, fieldAliases) ==
  LET Found(field) == getFieldValue(record, fieldAliases, field)
      Pushes(field) == Found(field) # Undefined /\ ContainsLocalhost(Found(field)[1].value)
      fields == SelectSeq(URL_FIELDS, Pushes)
  IN  [j \in 1 .. Len(fields) |->
         [field |-> Found(fields[j])[1].actualField,
          problem |-> "URL contains localhost - may not pass OpenAI validation",
          fixed |-> NoFix, severity |-> "warning"]]

\* typeof value === "number" ? value : parseInt(String(value), 10); NaN is
\* Undefined
ParseInt(v) ==
  CASE v.repr = "3" -> Defined(3)
    [] v.repr = "14" -> Defined(14)
    [] OTHER -> Undefined

\* lines 128-143
ReturnWindowFindings(record, fieldAliases) ==
  LET returnWindow == getFieldValue(record, fieldAliases, "return_window")
  IN  IF returnWindow # Undefined
         /\ ParseInt(returnWindow[1].value) # Undefined
         /\ ParseInt(returnWindow[1].value)[1] < 7
      THEN << [field |-> returnWindow[1].actualField,
               problem |-> "Return window is only day(s) - unusually short",
               fixed |-> NoFix, severity |-> "warning"] >>
      ELSE << >>

\* for (const alias of aliases)
\*   if (record[alias] !== undefined && record[canonical] === undefined) push
RenamesTo(record, canonical, aliasList) ==
  LET Present(a) == Has(record, a) /\ ~Has(record, canonical)
      hits == SelectSeq(aliasList, Present)
  IN  [j \in 1 .. Len(hits) |->
         [field |-> hits[j], problem |-> "Field renamed to",
          fixed |-> canonical, severity |-> "info"]]

\* lines 145-158
RECURSIVE RenameFindings(_, _, _)
RenameFindings(record, fieldAliases, keys) ==
  IF keys = << >> THEN << >>
  ELSE RenamesTo(record, Head(keys), fieldAliases[Head(keys)])
       \o RenameFindings(record, fieldAliases, Tail(keys))

NormalizerProblem(field) ==
  CASE field \in { "price", "sale_price", "shipping_price" } -> "Price format corrected"
    [] field = "availability" -> "Availability format standardized"
    [] field = "return_window" -> "Return window extracted"
    [] field = "condition" -> "Condition value translated"
    [] OTHER -> "Value normalized"

\* one field of lines 161-202; the values are those of the raw records
NormalizedTo(record, fieldAliases, fieldNormalizers, field) ==
  LET found == getFieldValue(record, fieldAliases, field)
  IN  IF found # Undefined /\ found[1].value \notin { Null, "" }
         /\ Normalizer(fieldNormalizers[field], found[1].value) # found[1].value
      THEN << [field |-> found[1].actualField, problem |-> NormalizerProblem(field),
               fixed |-> Normalizer(fieldNormalizers[field], found[1].value),
               severity |-> "info"] >>
      ELSE << >>

\* lines 160-202
RECURSIVE NormalizerFindings(_, _, _, _)
NormalizerFindings(record, fieldAliases, fieldNormalizers, keys) ==
  IF keys = << >> THEN << >>
  ELSE NormalizedTo(record, fieldAliases, fieldNormalizers, Head(keys))
       \o NormalizerFindings(record, fieldAliases, fieldNormalizers, Tail(keys))

\* detectRawIssues(record, fieldAliases, fieldNormalizers), lines 73-205
DetectRawIssuesIn(record, fieldAliases, fieldNormalizers) ==
  BooleanFindings(record, fieldAliases)
  \o UrlFindings(record, fieldAliases)
  \o ReturnWindowFindings(record, fieldAliases)
  \o RenameFindings(record, fieldAliases, KeysOf(fieldAliases))
  \o NormalizerFindings(record, fieldAliases, fieldNormalizers, KeysOf(fieldNormalizers))

\* detectRawIssues and normalizeRecord are called on one record with one
\* alias table and one normalizer table
InitDetect ==
  /\ rawRecord \in RawRecords
  /\ aliases \in AliasTables
  /\ normalizers \in NormalizerTables
  /\ defaults = Undefined
  /\ normalized = EmptyObject
  /\ normalizerCalls = {}
  /\ step = "called"
  /\ callNumber = 1
  /\ detectArgument = rawRecord
  /\ detected = Undefined
  /\ detectStep = "called"
  /\ NoRun
  /\ NoIteration
  /\ NoValidation
  /\ NoOtherRun
  /\ NoDialog

\* const rawDetected = detectRawIssues(mappedRecord, validator.fieldAliases,
\* validator.fieldNormalizers)
Detect ==
  /\ detectStep = "called"
  /\ detected' = Defined(DetectRawIssuesIn(detectArgument, aliases, normalizers))
  /\ detectStep' = "returned"
  /\ UNCHANGED << rvars, nvars, mvars, svars, tvars, gvars, detectArgument >>

NextDetect ==
  \/ Detect
  \/ NextNormalize

SpecDetect == InitDetect /\ [][NextDetect]_vars

\* ------------------------------------------------------------------------
\* One row through detectRawIssues and validateRecord, field by field: the
\* loop body of validateClient hands the same record to both (lines 334 and
\* 358); the validator declares no alias and no normalizer.
CoercionRecords ==
  { SchemaObject(fields) :
      fields \in
        [is_eligible_checkout : { Bool(TRUE), Str("true"), Str("false"), Str("1"),
                                  Str("0"), Str("TRUE"), Str("False"), Str("yes") },
         item_id : { Str("A1") },
         price : { Num("10") },
         sale_price : { Missing },
         availability : { Str("in_stock") },
         availability_date : { Missing },
         store_name : { Missing, Str("Shop") },
         seller_privacy_policy : { Str("https://shop.example/privacy") },
         seller_tos : { Str("https://shop.example/terms") },
         return_window : { Num("14"), Str("3") },
         accepts_returns : { Missing, Bool(TRUE), Str("true"), Str("1"), Str("TRUE"),
                             Str("no") },
         review_count : { Missing }] }

InitCoercion ==
  /\ schemaRecord \in CoercionRecords
  /\ schemaRow \in SchemaRows
  /\ parsed = Undefined
  /\ validation = Undefined
  /\ schemaStep = "called"
  /\ detectArgument = schemaRecord
  /\ detected = Undefined
  /\ detectStep = "called"
  /\ NoRun
  /\ NoCall
  /\ NoIteration
  /\ NoOtherRun
  /\ NoDialog

NextCoercion ==
  \/ Detect
  \/ SafeParse
  \/ ReturnValidation

SpecCoercion == InitCoercion /\ [][NextCoercion]_vars

\* ------------------------------------------------------------------------
\* FieldMappingDialog (validation-results.tsx): the dialog opens on the
\* headers of the file, maps them automatically, lets the user change one
\* mapping at a time, and hands the result to onConfirm.
MaxHeaders == 3

HeaderPool == { "price", "Price", "cost", "amount", "title", "sku" }

\* the header rows: the names of a row are distinct
HeaderLists ==
  { list \in UNION { [1 .. n -> HeaderPool] : n \in 0 .. MaxHeaders } :
      \A j, k \in DOMAIN list : j # k => list[j] # list[k] }

\* targetFields, by name
TargetFields == << "item_id", "title", "price" >>

\* targetFields.find((f) => f.name.toLowerCase() === header.toLowerCase())
DirectMatch(header) ==
  LET Same(name) == LowerCase(name) = LowerCase(header)
      hits == SelectSeq(TargetFields, Same)
  IN  IF hits = << >> THEN Undefined ELSE Defined(hits[1])

\* the first entry of fieldAliases one of whose aliases is the header
AliasMatch(fieldAliases, header) ==
  LET Lists(targetField) ==
        \E j \in DOMAIN fieldAliases[targetField] :
          LowerCase(fieldAliases[targetField][j]) = LowerCase(header)
      hits == SelectSeq(KeysOf(fieldAliases), Lists)
  IN  IF hits = << >> THEN Undefined ELSE Defined(hits[1])

\* one element of initialMappings
InitialMapping(fieldAliases, header) ==
  IF DirectMatch(header) # Undefined
  THEN [sourceField |-> header, targetField |-> DirectMatch(header)[1], autoMapped |-> TRUE]
  ELSE IF AliasMatch(fieldAliases, header) # Undefined
       THEN [sourceField |-> header, targetField |-> AliasMatch(fieldAliases, header)[1],
             autoMapped |-> TRUE]
       ELSE [sourceField |-> header, targetField |-> Null, autoMapped |-> FALSE]

\* sourceHeaders.map((header) => ...)
InitialMappings(headers, fieldAliases) ==
  [j \in DOMAIN headers |-> InitialMapping(fieldAliases, headers[j])]

\* the new state of handleMappingChange(sourceField, targetField)
handleMappingChange(prev, sourceField, targetField) ==
  [j \in DOMAIN prev |->
     IF prev[j].sourceField = sourceField
     THEN [prev[j] EXCEPT !.targetField = IF targetField = "unmapped" THEN Null
                                          ELSE targetField,
                          !.autoMapped = FALSE]
     ELSE prev[j]]

getMappedTargetFields(list) ==
  { list[j].targetField : j \in { k \in DOMAIN list : list[k].targetField # Null } }

\* isMapped: the item of this target is disabled in the row of this mapping
IsMapped(list, mapping, name) ==
  name \in getMappedTargetFields(list) /\ mapping.targetField # name

\* the values the Select of a row lets the user pick
Selectable(list, mapping) ==
  { "unmapped" } \cup
  { TargetFields[j] : j \in { k \in DOMAIN TargetFields :
                                ~IsMapped(list, mapping, TargetFields[k]) } }

\* mappingResult of handleConfirm
MappingResult(list) ==
  LET kept == { j \in DOMAIN list : list[j].targetField # Null }
      LastOf(h) == CHOOSE j \in kept :
                     /\ list[j].sourceField = h
                     /\ \A k \in kept : list[k].sourceField = h => k <= j
  IN  [h \in { list[j].sourceField : j \in kept } |-> list[LastOf(h)].targetField]

\* the dialog is about to open, the validator's fieldAliases being its prop
InitDialog ==
  /\ sourceHeaders \in HeaderLists
  /\ dialogMappings = << >>
  /\ confirmed = Undefined
  /\ dialogStep = "closed"
  /\ rawRecord = << >>
  /\ aliases \in AliasTables
  /\ normalizers = << >>
  /\ defaults = Undefined
  /\ normalized = << >>
  /\ normalizerCalls = {}
  /\ step = "idle"
  /\ callNumber = 0
  /\ NoRun
  /\ NoIteration
  /\ NoValidation
  /\ NoOtherRun
  /\ NoDetection

\* useEffect: if (open && sourceHeaders.length > 0) setMappings(initialMappings)
OpenDialog ==
  /\ dialogStep = "closed"
  /\ dialogMappings' = IF Len(sourceHeaders) > 0
                       THEN InitialMappings(sourceHeaders, aliases)
                       ELSE dialogMappings
  /\ dialogStep' = "open"
  /\ UNCHANGED << rvars, nvars, mvars, svars, tvars, dvars, sourceHeaders, confirmed >>

\* the user picks an enabled item in the Select of one row
ChangeMapping ==
  /\ dialogStep = "open"
  /\ \E j \in DOMAIN dialogMappings :
       \E value \in Selectable(dialogMappings, dialogMappings[j]) :
         dialogMappings' =
           handleMappingChange(dialogMappings, dialogMappings[j].sourceField, value)
  /\ UNCHANGED << rvars, nvars, mvars, svars, tvars, dvars, sourceHeaders, confirmed,
                  dialogStep >>

\* handleConfirm: onConfirm(mappingResult)
Confirm ==
  /\ dialogStep = "open"
  /\ confirmed' = Defined(MappingResult(dialogMappings))
  /\ dialogStep' = "confirmed"
  /\ UNCHANGED << rvars, nvars, mvars, svars, tvars, dvars, sourceHeaders, dialogMappings >>

NextDialog ==
  \/ OpenDialog
  \/ ChangeMapping
  \/ Confirm

SpecDialog == InitDialog /\ [][NextDialog]_vars

\* ------------------------------------------------------------------------
\* Termination.  Both entry points on sound files, with every chunk size of
\* the model.  The code of a run between two awaits runs to its end, the file
\* is finite so reading it ends, and the timer of a yield fires: the steps of
\* the run are taken when they can be.  The caller is free to abort or not.
\* a record with two schema issues and one finding
Invalid2 ==
  [id |-> "f", zodIssues |-> 2, underMappings |-> 2,
   rawFindings |-> << 2 >>, rawUnderMappings |-> << 2 >>]

LiveFiles == ArraysUpTo({ ValidB, Invalid2 }, MaxRows)

InitLive ==
  /\ validatorId = "openai"
  /\ fileName = << "feed", "jsonl" >>
  /\ file \in LiveFiles
  /\ sourceFault = NoFault
  /\ chunkSize \in ChunkSizes
  /\ includeValidRecords = FALSE
  /\ customMappings = Undefined
  /\ pc \in { "start", "preStart" }
  /\ InitRun
  /\ NoCall
  /\ NoFieldStep

\* the steps of validateClient itself
RunSteps ==
  \/ Enter
  \/ Materialize
  \/ ReportInitial
  \/ CancelRun
  \/ ProcessRecord
  \/ Resume
  \/ Complete

\* the steps of preValidateClient itself
PreRunSteps ==
  \/ PreEnter
  \/ PreMaterialize
  \/ PreReportInitial
  \/ PreCancelRun
  \/ PreProcessRecord
  \/ PreResume
  \/ PreComplete

SpecLive ==
  /\ InitLive
  /\ [][NextAny]_vars
  /\ WF_vars(RunSteps)
  /\ WF_vars(PreRunSteps)

\* ------------------------------------------------------------------------
\* Properties
Last(list) == list[Len(list)]

Processed == validRows + invalidRows

\* C1: every snapshot handed to onProgress (initial, chunk boundary,
\* cancellation, final) has validRows + invalidRows = processedRows.
C1_CounterInvariant ==
  \A k \in 1 .. Len(snapshots) :
    snapshots[k].validRows + snapshots[k].invalidRows = snapshots[k].processedRows

\* a run cancelled behind chunk reports, with valid and invalid rows counted
C1_Witness ==
  /\ Len(snapshots) >= 3
  /\ Last(snapshots).isCancelled
  /\ Last(snapshots).validRows >= 1
  /\ Last(snapshots).invalidRows >= 1

\* C2: in every state of a run the retained issue list holds at most
\* MAX_ISSUES_RETURNED issues and the retained valid-record list at most
\* MAX_VALID_RECORDS_STORED records, in the returned summary as well.
C2_CapInvariant ==
  /\ Len(issues) <= MAX_ISSUES_RETURNED
  /\ Length(validRecords) <= MAX_VALID_RECORDS_STORED
  /\ result.returned =>
       /\ Len(result.summary.issues) <= MAX_ISSUES_RETURNED
       /\ result.summary.validRecords # Undefined =>
            Length(result.summary.validRecords[1]) <= MAX_VALID_RECORDS_STORED

\* both lists are full and more issues and more valid records have occurred
C2_Witness ==
  /\ Len(issues) = MAX_ISSUES_RETURNED
  /\ errorCount > MAX_ISSUES_RETURNED
  /\ Length(validRecords) = MAX_VALID_RECORDS_STORED
  /\ validRows > MAX_VALID_RECORDS_STORED

\* C3: when the loop finds the signal aborted at the boundary before record
\* k+1, that step validates no record, emits one snapshot (isCancelled, not
\* isComplete, processedRows = k) and returns a result with success = FALSE;
\* nothing happens after the return.
C3_CancelStops ==
  /\ [][ (pc = "loop" /\ i < Length(allRecords) /\ aborted) =>
          /\ Len(snapshots') = Len(snapshots) + 1
          /\ Last(snapshots').isCancelled
          /\ ~Last(snapshots').isComplete
          /\ Last(snapshots').processedRows = Processed
          /\ << validRows', invalidRows', errorCount', warningCount', issues',
                validRecords' >>
             = << validRows, invalidRows, errorCount, warningCount, issues,
                  validRecords >>
          /\ result'.returned
          /\ result'.success = FALSE
          /\ pc' = "done" ]_vars
  /\ [][ pc # "done" ]_vars

\* a run cancelled after some, not all, records
C3_Witness ==
  /\ pc = "done"
  /\ ~result.success
  /\ Last(snapshots).isCancelled
  /\ Last(snapshots).processedRows >= 1
  /\ Last(snapshots).processedRows < totalRows

\* C4, as claimed: a run whose signal was set before its first record or
\* during a chunk-boundary yield (the yield after the last record included)
\* ends Cancelled: its last snapshot has isCancelled, its result success = FALSE.
C4_AbortAlwaysCancels ==
  [][ (pc # "done" /\ pc' = "done" /\ abortedAt \in {"read", "yield"}
       /\ chunkSize >= 1 /\ totalRows >= 1) =>
        /\ result'.success = FALSE
        /\ Last(snapshots').isCancelled ]_vars

\* C4, amended: the signal, once set, stays set; the loop that finds it set
\* before a record still to be processed ends the run Cancelled (last
\* snapshot isCancelled and not isComplete, success = FALSE); the loop that
\* finds it set when no record is left ends the run Completed (last snapshot
\* isComplete and not isCancelled, success = TRUE).
C4_AbortCancelsWhileRecordsRemain ==
  /\ [][ aborted => abortedAt' = abortedAt ]_vars
  /\ [][ (pc = "loop" /\ aborted) =>
          /\ pc' = "done"
          /\ result'.returned
          /\ IF i < Length(allRecords)
             THEN /\ result'.success = FALSE
                  /\ Last(snapshots').isCancelled
                  /\ ~Last(snapshots').isComplete
             ELSE /\ result'.success = TRUE
                  /\ Last(snapshots').isComplete
                  /\ ~Last(snapshots').isCancelled ]_vars

\* a run cancelled by a signal set during its first chunk-boundary yield
C4_Witness ==
  /\ pc = "done"
  /\ abortedAt = "yield"
  /\ chunkSize >= 1
  /\ result.success = FALSE
  /\ Last(snapshots).isCancelled
  /\ Last(snapshots).processedRows = chunkSize

\* What the first k records of the file produce, computed from the file alone.
RowResult(r) == validateRecord(applyCustomMappings(At(file, r)), r)

RECURSIVE IssuesOfRows(_)
IssuesOfRows(k) ==
  IF k = 0 THEN << >> ELSE IssuesOfRows(k - 1) \o RowResult(k).issues

RECURSIVE ValidDataOfRows(_)
ValidDataOfRows(k) ==
  IF k = 0 THEN EmptyArray
  ELSE IF RowResult(k).isValid
       THEN Push(ValidDataOfRows(k - 1), RowResult(k).data[1])
       ELSE ValidDataOfRows(k - 1)

IssuesOfSeverity(k, severity) ==
  LET all == IssuesOfRows(k)
  IN  Cardinality({ j \in 1 .. Len(all) : all[j].severity = severity })

ValidRowsOf(k) == Cardinality({ r \in 1 .. k : RowResult(r).isValid })

Min(a, b) == IF a <= b THEN a ELSE b

Take(list, n) == SubSeq(list, 1, Min(n, Len(list)))

SummaryOfRows(k) ==
  [totalRows |-> k,
   validRows |-> ValidRowsOf(k),
   invalidRows |-> k - ValidRowsOf(k),
   errorCount |-> IssuesOfSeverity(k, "error"),
   warningCount |-> IssuesOfSeverity(k, "warning"),
   issues |-> Take(IssuesOfRows(k), MAX_ISSUES_RETURNED),
   validRecords |-> IF includeValidRecords
                    THEN Defined(ArrayTake(ValidDataOfRows(k), MAX_VALID_RECORDS_STORED))
                    ELSE Undefined]

CancelledAt(k) ==
  /\ pc = "done"
  /\ result.success = FALSE
  /\ Last(snapshots).processedRows = k

\* C5: the summary returned on cancellation after k processed records is the
\* summary of the first k records of the file: totalRows, validRows,
\* invalidRows, errorCount, warningCount, issues and validRecords.
C5_PartialSummary ==
  \A k \in 0 .. Length(file) : CancelledAt(k) => result.summary = SummaryOfRows(k)

\* C5, amended: the summary returned on cancellation after k processed
\* records has the validRows, invalidRows, errorCount, warningCount, issues and
\* validRecords of the first k records of the file, and as totalRows the
\* number of records of the whole file.
C5_PartialSummaryOfProcessed ==
  \A k \in 0 .. Length(file) :
    CancelledAt(k) =>
      result.summary = [SummaryOfRows(k) EXCEPT !.totalRows = Length(file)]

\* a run cancelled after valid and invalid records, with records left
C5_Witness ==
  /\ pc = "done"
  /\ result.success = FALSE
  /\ result.summary.validRows >= 1
  /\ result.summary.invalidRows >= 1
  /\ result.summary.validRows + result.summary.invalidRows < result.summary.totalRows

\* C6: no snapshot is both isComplete and isCancelled, a terminal snapshot is
\* the last one, the run has returned exactly when its last snapshot is
\* terminal, and once a terminal snapshot is out no snapshot is emitted and no
\* record is validated.
Terminal(snapshot) == snapshot.isComplete \/ snapshot.isCancelled

C6_OneTerminalSnapshot ==
  /\ [](\A k \in 1 .. Len(snapshots) :
          /\ ~(snapshots[k].isComplete /\ snapshots[k].isCancelled)
          /\ Terminal(snapshots[k]) => k = Len(snapshots))
  /\ [](pc = "done" <=> (snapshots # << >> /\ Terminal(Last(snapshots))))
  /\ [][ (snapshots # << >> /\ Terminal(Last(snapshots))) =>
          /\ snapshots' = snapshots
          /\ Processed' = Processed ]_vars

\* a completed run whose signal was set after the last record
C6_Witness ==
  /\ pc = "done"
  /\ aborted
  /\ Last(snapshots).isComplete
  /\ Len(snapshots) >= 4

\* C7: the truncated flag of the result is TRUE exactly when some issue of
\* the processed records is missing from summary.issues, whether the run
\* completed or was cancelled.
C7_TruncatedIffIssueDropped ==
  pc = "done" =>
    (result.truncated <=> Len(IssuesOfRows(Processed)) > Len(result.summary.issues))

\* The same for the runs that complete.
CompletedTruncatedIffIssueDropped ==
  (pc = "done" /\ result.success) =>
    (result.truncated <=> Len(IssuesOfRows(Processed)) > Len(result.summary.issues))

\* C8: the validRecordsTruncated flag of the result is TRUE exactly when
\* includeValidRecords is set and some valid record among the processed ones
\* was not retained, whether the run completed or was cancelled (the formula
\* does not read the truncated flag).
C8_ValidRecordsTruncatedIffDropped ==
  pc = "done" =>
    (result.validRecordsTruncated <=>
       (includeValidRecords /\ ValidRowsOf(Processed) > Length(validRecords)))

\* The same for the runs that complete.
CompletedValidRecordsTruncatedIffDropped ==
  (pc = "done" /\ result.success) =>
    (result.validRecordsTruncated <=>
       (includeValidRecords /\ ValidRowsOf(Processed) > Length(validRecords)))

\* C9: with chunkSize c >= 1, the step that processes a record ends in the
\* yield, behind one more snapshot that is not terminal and reports the
\* records processed, exactly when their number is a multiple of c; the run
\* is suspended in a yield only by such a step, and the rows, issues and
\* records of one record are all counted in that one step.
C9_YieldEveryChunk ==
  [][ chunkSize >= 1 =>
        /\ Processed' # Processed =>
             /\ Processed' = Processed + 1
             /\ Processed' = i + 1
             /\ errorCount' + warningCount' = Len(IssuesOfRows(Processed'))
             /\ IF Processed' % chunkSize = 0
                THEN /\ pc' = "yield"
                     /\ Len(snapshots') = Len(snapshots) + 1
                     /\ ~Terminal(Last(snapshots'))
                     /\ Last(snapshots').processedRows = Processed'
                ELSE /\ pc' = "loop"
                     /\ snapshots' = snapshots
        /\ (pc' = "yield" /\ pc # "yield") => Processed' = Processed + 1 ]_vars

\* the run is suspended behind its second record, the chunk being two records
C9_Witness ==
  /\ pc = "yield"
  /\ chunkSize = 2
  /\ Processed = 2
  /\ Len(snapshots) = 2

\* C10: no record is validated before the first snapshot; the first snapshot
\* is emitted with the whole record stream collected, has processedRows 0,
\* all counters 0, both flags FALSE and totalRows the number of records of
\* the file, and every snapshot of the run has that totalRows.
C10_InitialSnapshot ==
  /\ snapshots = << >> => (Processed = 0 /\ i = 0)
  /\ snapshots # << >> =>
       /\ allRecords = file
       /\ snapshots[1] =
            [totalRows |-> Length(file), processedRows |-> 0, validRows |-> 0,
             invalidRows |-> 0, errorCount |-> 0, warningCount |-> 0,
             isComplete |-> FALSE, isCancelled |-> FALSE]
       /\ \A k \in 1 .. Len(snapshots) : snapshots[k].totalRows = Length(file)

\* a finished run over several records with chunk reports
C10_Witness ==
  /\ pc = "done"
  /\ Length(file) >= 2
  /\ Len(snapshots) >= 3
  /\ Processed >= 2

\* C11: a validateClient run that returns without having been cancelled (its
\* signal was never set, or its last snapshot is not a cancellation) has a
\* last snapshot with isComplete, not isCancelled and processedRows =
\* totalRows, every record of the file being processed, and a result with
\* success and summary.validRows + summary.invalidRows = summary.totalRows.
C11_UncancelledRunCompletes ==
  (pc = "done" /\ (abortedAt = "never" \/ ~Last(snapshots).isCancelled)) =>
    /\ Last(snapshots).isComplete
    /\ ~Last(snapshots).isCancelled
    /\ Last(snapshots).processedRows = Last(snapshots).totalRows
    /\ Last(snapshots).processedRows = Length(file)
    /\ result.returned
    /\ result.success = TRUE
    /\ result.summary.validRows + result.summary.invalidRows
         = result.summary.totalRows

\* a run of valid and invalid records whose signal was never set has returned
C11_Witness ==
  /\ pc = "done"
  /\ abortedAt = "never"
  /\ result.success
  /\ result.summary.validRows >= 1
  /\ result.summary.invalidRows >= 1
  /\ Len(snapshots) >= 3

\* The number of issues the schema finds in row r of the file, read off the
\* file and the customMappings option.
SchemaIssuesOfRow(r) ==
  IF customMappings = Undefined THEN At(file, r).zodIssues
  ELSE At(file, r).underMappings

RECURSIVE SchemaIssuesUpTo(_)
SchemaIssuesUpTo(k) ==
  IF k = 0 THEN 0 ELSE SchemaIssuesUpTo(k - 1) + SchemaIssuesOfRow(k)

FailingRows == { r \in 1 .. Length(file) : SchemaIssuesOfRow(r) > 0 }

\* C12: a record that fails validation does not stop the run.  The step that
\* validates a failing record adds one to invalidRows, its issues, all of
\* severity error, to errorCount and (up to the cap) to issues, changes
\* nothing else that is counted or retained, and leaves the run running; the
\* records are validated one per step, row 1, 2, ... in turn, and a run that
\* completes has validated every record of the file, each once.
C12_FailureNeverStopsRun ==
  /\ [][ Processed' # Processed =>
          /\ Processed' = Processed + 1
          /\ called'.validateRecord # Undefined
          /\ called'.validateRecord[1].row = Processed'
          /\ (Processed' \in FailingRows) =>
               /\ invalidRows' = invalidRows + 1
               /\ validRows' = validRows
               /\ validRecords' = validRecords
               /\ errorCount' = errorCount + SchemaIssuesOfRow(Processed')
               /\ warningCount' = warningCount
               /\ issues' = Take(issues \o
                                   [k \in 1 .. SchemaIssuesOfRow(Processed') |->
                                      [row |-> Processed', field |-> k,
                                       severity |-> "error"]],
                                 MAX_ISSUES_RETURNED)
               /\ pc' \in { "loop", "yield" }
               /\ result' = result ]_vars
  /\ [][ Processed' = Processed => called' = called ]_vars
  /\ []((pc = "done" /\ result.success) =>
          /\ Processed = Length(file)
          /\ result.summary.invalidRows = Cardinality(FailingRows)
          /\ result.summary.errorCount = SchemaIssuesUpTo(Length(file)))

\* a completed run whose first record failed and whose later records passed
C12_Witness ==
  /\ pc = "done"
  /\ result.success
  /\ Length(file) = 3
  /\ FailingRows = { 1 }
  /\ result.summary.invalidRows = 1
  /\ result.summary.validRows = 2

\* the content of the file makes the record source fail
SourceFails ==
  \/ sourceFault.kind = "row"
  \/ sourceFault.kind = "gzip" /\ Gzipped(detectFormat(fileName).value)

\* validateClient was called, with a validator and a file name it accepts
ValidateClientAccepted ==
  /\ pc \notin { "preStart", "preParse", "preReport", "preLoop", "preYield",
                 "preDone", "preFailed" }
  /\ validatorId = "openai"
  /\ ~detectFormat(fileName).threw

\* the error the record source fails with, read off the file
SourceError ==
  IF sourceFault.kind = "gzip" THEN GzipError
  ELSE IF detectFormat(fileName).value \in { "jsonl", "jsonl.gz" }
       THEN InvalidJson(sourceFault.row)
       ELSE CsvParsingError(sourceFault.row)

\* C13: when the record source fails (the gzip stream does not decode, a
\* JSONL line or a CSV row is malformed, whatever well-formed rows precede
\* it), validateClient rejects with the source's error; no snapshot is
\* emitted and no record is validated, at any point of the run.
C13_SourceFailureRejects ==
  /\ []((ValidateClientAccepted /\ SourceFails) =>
          /\ snapshots = << >>
          /\ Processed = 0
          /\ called = NotCalled
          /\ issues = << >>
          /\ pc \in { "start", "parse", "failed" }
          /\ ~result.returned
          /\ pc = "failed" => (result.rejected /\ result.error = SourceError))
  /\ [][ (ValidateClientAccepted /\ SourceFails /\ pc = "parse" /\ pc' # pc) =>
           pc' = "failed" ]_vars

\* a JSONL file rejected for its third line, two records having been read
C13_Witness ==
  /\ ValidateClientAccepted
  /\ pc = "failed"
  /\ sourceFault = [kind |-> "row", row |-> 3]
  /\ detectFormat(fileName).value = "jsonl"
  /\ Length(allRecords) = 2
  /\ result.error = InvalidJson(3)

UnknownValidatorId == validatorId \notin DOMAIN validators

UnsupportedFileName == detectFormat(fileName).threw

RunRejected == pc \in { "failed", "preFailed" }

\* an error names the registered validator ids
ListsValidatorIds(error) ==
  /\ error.alternatives # Undefined
  /\ { error.alternatives[1][k] : k \in 1 .. Len(error.alternatives[1]) }
       = DOMAIN validators

\* an error names file formats, the ones openAIValidator supports among them
ListsFormats(error) ==
  /\ error.alternatives # Undefined
  /\ \A k \in 1 .. Len(validators["openai"].supportedFormats) :
       Includes(error.alternatives[1], validators["openai"].supportedFormats[k])

RejectedBeforeParsing ==
  /\ pc \in { "start", "preStart", "failed", "preFailed" }
  /\ allRecords = EmptyArray
  /\ snapshots = << >>
  /\ Processed = 0
  /\ ~result.returned
  /\ RunRejected => result.rejected

\* C14: a run of validateClient or of preValidateClient called with an
\* unknown validator id, or on a file whose format is not supported, is
\* rejected before the file is parsed and before any snapshot, with an error
\* that names the valid alternatives: the registered validator ids for an
\* unknown id, the supported formats for an unsupported format.
C14_RejectedWithAlternatives ==
  /\ UnknownValidatorId =>
       /\ RejectedBeforeParsing
       /\ RunRejected => ListsValidatorIds(result.error)
  /\ (~UnknownValidatorId /\ UnsupportedFileName) =>
       /\ RejectedBeforeParsing
       /\ RunRejected => ListsFormats(result.error)

\* The same for the runs of validateClient alone.
ValidateClientRejectedWithAlternatives ==
  pc \in { "start", "parse", "failed" } => C14_RejectedWithAlternatives

\* Either entry point rejects such a call before the file is parsed.
EntryRejectedBeforeParsing ==
  (UnknownValidatorId \/ UnsupportedFileName) => RejectedBeforeParsing

\* row r of the file as the validator is to see it, read off the file and
\* the customMappings option
MappedRow(r) ==
  IF customMappings = Undefined THEN At(file, r)
  ELSE [id |-> At(file, r).id, zodIssues |-> At(file, r).underMappings,
        underMappings |-> At(file, r).underMappings,
        rawFindings |-> At(file, r).rawUnderMappings,
        rawUnderMappings |-> At(file, r).rawUnderMappings]

NonDecreasingRows(list) ==
  \A k \in 1 .. Len(list) - 1 : list[k].row <= list[k + 1].row

\* C15: records are validated one per step in source order, the i-th record
\* of the file under row number i; detectRawIssues, when it is called for a
\* record, is called in the same step with the record validateRecord is
\* called with (the mapped one), under the same row; the rows of the
\* retained issues, and of summary.issues, are non-decreasing and lie in
\* 1 .. the number of records processed.
C15_SourceOrderAndRows ==
  /\ [][ Processed' # Processed =>
          /\ Processed' = Processed + 1
          /\ called'.validateRecord
               = Defined([record |-> MappedRow(Processed'), row |-> Processed'])
          /\ called'.detectRawIssues \in { Undefined, called'.validateRecord }
          /\ Processed' <= RAW_PREVIEW_ROWS => called'.detectRawIssues # Undefined ]_vars
  /\ [][ Processed' = Processed => called' = called ]_vars
  /\ [](/\ NonDecreasingRows(issues)
        /\ \A k \in 1 .. Len(issues) : issues[k].row \in 1 .. Processed)
  /\ [](result.returned =>
          /\ NonDecreasingRows(result.summary.issues)
          /\ \A k \in 1 .. Len(result.summary.issues) :
               result.summary.issues[k].row \in 1 .. Last(snapshots).processedRows)

\* the second record, which the renaming changes, has been validated, and
\* issues of two rows are retained
C15_Witness ==
  /\ customMappings # Undefined
  /\ Processed = 2
  /\ called.validateRecord[1].row = 2
  /\ called.validateRecord[1].record # At(file, 2)
  /\ called.detectRawIssues = called.validateRecord
  /\ \E j, k \in 1 .. Len(issues) : issues[j].row = 1 /\ issues[k].row = 2

\* C16: from one snapshot of a validateClient run to any later one,
\* processedRows, validRows, invalidRows, errorCount and warningCount do not
\* decrease, the cancellation snapshot included.
C16_MonotoneSnapshots ==
  \A j, k \in 1 .. Len(snapshots) :
    j <= k =>
      /\ snapshots[j].processedRows <= snapshots[k].processedRows
      /\ snapshots[j].validRows <= snapshots[k].validRows
      /\ snapshots[j].invalidRows <= snapshots[k].invalidRows
      /\ snapshots[j].errorCount <= snapshots[k].errorCount
      /\ snapshots[j].warningCount <= snapshots[k].warningCount

\* a run cancelled behind two chunk reports, each with more rows and errors
C16_Witness ==
  /\ Len(snapshots) = 4
  /\ snapshots[4].isCancelled
  /\ snapshots[2].errorCount >= 1
  /\ snapshots[3].errorCount > snapshots[2].errorCount
  /\ snapshots[4].invalidRows = 2

\* What alias resolution is to give canonical field c, read off the raw
\* record and the alias table: the value under c if it is there and not "",
\* else the value under the alias of least index that is there and not "".
AliasHits(c) ==
  { j \in 1 .. Len(aliases[c]) :
      aliases[c][j] \in DOMAIN rawRecord /\ rawRecord[aliases[c][j]] # "" }

LeastOf(S) == CHOOSE j \in S : \A k \in S : j <= k

Resolution(c) ==
  IF c \in DOMAIN rawRecord /\ rawRecord[c] # "" THEN Defined(rawRecord[c])
  ELSE IF AliasHits(c) = {} THEN Undefined
  ELSE Defined(rawRecord[aliases[c][LeastOf(AliasHits(c))]])

\* the normalizer of field k, if it has one, applied to value
AfterNormalizer(k, value) ==
  IF k \in DOMAIN normalizers THEN Normalizer(normalizers[k], value) ELSE value

\* C17: after the alias loop every canonical field c with an alias entry
\* holds the raw value under c when that is non-empty, else the value of the
\* first alias in declared order whose raw value is non-empty, else is
\* absent; the value returned for a field so resolved is that value, passed
\* through the field's normalizer if it has one.
C17_AliasPrecedence ==
  /\ step \in { "resolved", "copied" } =>
       \A c \in DOMAIN aliases :
         IF Resolution(c) = Undefined
         THEN step = "resolved" => c \notin DOMAIN normalized
         ELSE c \in DOMAIN normalized /\ normalized[c] = Resolution(c)[1]
  /\ step = "returned" =>
       \A c \in DOMAIN aliases :
         Resolution(c) # Undefined =>
           /\ c \in DOMAIN normalized
           /\ normalized[c] = AfterNormalizer(c, Resolution(c)[1])

\* price is empty and both its aliases hold a value: amount, declared first
\* in this table, has given its value
C17_Witness ==
  /\ step = "resolved"
  /\ aliases["price"] = << "amount", "cost" >>
  /\ "price" \in DOMAIN rawRecord /\ rawRecord["price"] = ""
  /\ NonEmpty(rawRecord, "cost")
  /\ NonEmpty(rawRecord, "amount")
  /\ normalized["price"] = "M"

HasDefault(k) == defaults # Undefined /\ k \in DOMAIN defaults[1]

\* canonical field c is "" in the raw record and no alias of c has a value
EmptyAndUnresolved(c) ==
  /\ c \in DOMAIN rawRecord
  /\ rawRecord[c] = ""
  /\ Resolution(c) = Undefined

\* the raw record without field c
Without(record, c) == [k \in DOMAIN record \ { c } |-> record[k]]

\* C18: an empty string is treated exactly like a missing value.  A
\* canonical field whose raw value is "" and none of whose aliases has a
\* non-empty value is absent from the returned record unless it has a
\* default, the returned record being the one returned for the raw record
\* without that field; and a normalizer is called only on a field that is
\* present and non-empty after alias resolution and default injection.
C18_EmptyLikeMissing ==
  /\ step = "returned" =>
       \A c \in DOMAIN aliases :
         EmptyAndUnresolved(c) =>
           /\ ~HasDefault(c) => c \notin DOMAIN normalized
           /\ normalized = normalizeRecord(Without(rawRecord, c), aliases,
                                           normalizers, defaults)
  /\ \A call \in normalizerCalls : call.value # ""

\* Where the field has a default or another value resolves it, "" is treated
\* like a missing value, under canonical names and under alias names.
EmptyLikeMissingWhenFilled ==
  step = "returned" =>
    \A k \in DOMAIN rawRecord :
      (rawRecord[k] = "" /\ (IsAlias(aliases, k)
                              \/ (k \in DOMAIN aliases /\ (HasDefault(k)
                                                          \/ Resolution(k) # Undefined)))) =>
        normalized = normalizeRecord(Without(rawRecord, k), aliases,
                                     normalizers, defaults)

\* the names the tables know: the canonical names, and the declared aliases
CanonicalNames ==
  DOMAIN aliases \cup DOMAIN normalizers
    \cup (IF defaults = Undefined THEN {} ELSE DOMAIN defaults[1])

DeclaredAliases ==
  UNION { { aliases[c][j] : j \in 1 .. Len(aliases[c]) } : c \in DOMAIN aliases }

C20_DefaultsThenNormalizers ==
  /\ [][ (step = "copied" /\ step' # step) =>
          /\ step' = "defaulted"
          /\ DOMAIN normalized'
               = DOMAIN normalized \cup { k \in DOMAIN rawRecord \cup CanonicalNames : HasDefault(k) }
          /\ \A k \in DOMAIN normalized' :
               IF HasDefault(k) /\ (k \notin DOMAIN normalized \/ normalized[k] = "")
               THEN normalized'[k] = defaults[1][k]
               ELSE normalized'[k] = normalized[k] ]_vars
  /\ [][ (step = "defaulted" /\ step' # step) =>
          /\ step' = "returned"
          /\ DOMAIN normalized' = DOMAIN normalized
          /\ \A k \in DOMAIN normalized : normalized'[k] = AfterNormalizer(k, normalized[k])
          /\ \A k \in DOMAIN normalized \cap DOMAIN normalizers :
               [field |-> k, value |-> normalized[k]] \in normalizerCalls' ]_vars
  /\ [](step = "returned" =>
          \A k \in DOMAIN aliases :
            HasDefault(k) =>
              /\ k \in DOMAIN normalized
              /\ normalized[k] = AfterNormalizer(k, IF Resolution(k) = Undefined
                                                    THEN defaults[1][k]
                                                    ELSE Resolution(k)[1]))

\* price, "" in the raw record and under no alias, is returned as its
\* default passed through its normalizer; title kept its value
C20_Witness ==
  /\ step = "returned"
  /\ defaults = Defined([price |-> "D", title |-> "E"])
  /\ normalizers = [price |-> "lowercase", title |-> "lowercase"]
  /\ DOMAIN rawRecord = { "price", "title" }
  /\ rawRecord["price"] = ""
  /\ rawRecord["title"] = "T"
  /\ normalized = [price |-> "d", title |-> "t"]
  /\ [field |-> "price", value |-> "D"] \in normalizerCalls

\* the entries the custom mappings rename to a name that another entry of the
\* record is written to as well, or to no name at all
TargetOf(entry) ==
  IF Has(fieldMappings[1], entry.key) THEN fieldMappings[1][entry.key] ELSE entry.key

CollisionFree ==
  /\ \A a, b \in DOMAIN rawEntries :
       a # b => TargetOf(rawEntries[a]) # TargetOf(rawEntries[b])
  /\ \A a \in DOMAIN rawEntries : TargetOf(rawEntries[a]) # ""

\* C21: when customMappings is supplied, the record handed to
\* validator.validateRecord holds every raw field with a mapping entry under
\* its mapped target name and every other raw field under its original name,
\* each with its value unchanged, and holds nothing else: no alias is
\* resolved on the way ({sku: "A1"} with sku -> item_id gives item_id "A1").
C21_MappedRecordHanded ==
  (mapStep = "validated" /\ fieldMappings # Undefined) =>
    LET handed == validatorArgument[1]
    IN  /\ \A a \in DOMAIN rawEntries :
             /\ Has(handed, TargetOf(rawEntries[a]))
             /\ handed[TargetOf(rawEntries[a])] = rawEntries[a].value
        /\ DOMAIN handed = { TargetOf(rawEntries[a]) : a \in DOMAIN rawEntries }

\* the same for the records whose fields are renamed to distinct, non-empty
\* names
MappedRecordHandedWithoutCollision ==
  (mapStep = "validated" /\ fieldMappings # Undefined /\ CollisionFree) =>
    LET handed == validatorArgument[1]
    IN  /\ \A a \in DOMAIN rawEntries :
             /\ Has(handed, TargetOf(rawEntries[a]))
             /\ handed[TargetOf(rawEntries[a])] = rawEntries[a].value
        /\ DOMAIN handed = { TargetOf(rawEntries[a]) : a \in DOMAIN rawEntries }

\* {sku: "A1"} with the mapping sku -> item_id has been handed over as
\* {item_id: "A1"}
SkuHandedAsItemId ==
  /\ mapStep = "validated"
  /\ rawEntries = << [key |-> "sku", value |-> "A1"] >>
  /\ fieldMappings = Defined([k \in { "sku" } |-> "item_id"])
  /\ validatorArgument = Defined([k \in { "item_id" } |-> "A1"])

\* What the schema makes of the first k rows, read off the file and the
\* customMappings option; what detectRawIssues finds in a record is read
\* nowhere here.
PassingRowsUpTo(k) == { r \in 1 .. k : SchemaIssuesOfRow(r) = 0 }

RECURSIVE SchemaIssueSequence(_)
SchemaIssueSequence(k) ==
  IF k = 0 THEN << >>
  ELSE SchemaIssueSequence(k - 1) \o
       [j \in 1 .. SchemaIssuesOfRow(k) |->
          [row |-> k, field |-> j, severity |-> "error"]]

RECURSIVE PassingIdsUpTo(_)
PassingIdsUpTo(k) ==
  IF k = 0 THEN << >>
  ELSE IF SchemaIssuesOfRow(k) = 0
       THEN Append(PassingIdsUpTo(k - 1), At(file, k).id)
       ELSE PassingIdsUpTo(k - 1)

IdsOf(array) == [j \in 1 .. Length(array) |-> At(array, j).id]

\* the counters of a progress snapshot follow from the rows it reports as
\* processed
SnapshotOfSchemaOnly(snapshot) ==
  LET k == snapshot.processedRows
      passing == Cardinality(PassingRowsUpTo(k))
  IN  /\ snapshot.validRows = passing
      /\ snapshot.invalidRows = k - passing
      /\ snapshot.errorCount = SchemaIssuesUpTo(k)
      /\ snapshot.warningCount = 0

\* the summary and the truncation flags follow from the k rows processed
ResultOfSchemaOnly(k) ==
  /\ result.summary.validRows = Cardinality(PassingRowsUpTo(k))
  /\ result.summary.invalidRows = k - Cardinality(PassingRowsUpTo(k))
  /\ result.summary.errorCount = SchemaIssuesUpTo(k)
  /\ result.summary.warningCount = 0
  /\ result.summary.issues = Take(SchemaIssueSequence(k), MAX_ISSUES_RETURNED)
  /\ IF includeValidRecords
     THEN /\ result.summary.validRecords # Undefined
          /\ IdsOf(result.summary.validRecords[1]) =
               Take(PassingIdsUpTo(k), MAX_VALID_RECORDS_STORED)
     ELSE result.summary.validRecords = Undefined
  /\ result.truncated =
       (result.success => SchemaIssuesUpTo(k) > MAX_ISSUES_RETURNED)
  /\ result.validRecordsTruncated =
       (result.success /\ includeValidRecords
        /\ Cardinality(PassingRowsUpTo(k)) > MAX_VALID_RECORDS_STORED)

RawSeverities == { "warning", "info" }

\* C22: raw-issue detection never affects validity.  The counters of every
\* snapshot and the summary and truncation flags of the result are what the
\* schema makes of the rows processed, whatever detectRawIssues finds in
\* them; the record validateRecord is called with is the mapped record as
\* detectRawIssues was given it; every raw issue kept has severity warning
\* or info.
C22_RawIssuesAdvisory ==
  /\ \A k \in 1 .. Len(snapshots) : SnapshotOfSchemaOnly(snapshots[k])
  /\ result.returned => ResultOfSchemaOnly(Last(snapshots).processedRows)
  /\ called.validateRecord # Undefined =>
       /\ called.validateRecord[1].record = MappedRow(called.validateRecord[1].row)
       /\ called.detectRawIssues # Undefined =>
            called.detectRawIssues[1].record = called.validateRecord[1].record
  /\ \A k \in 1 .. Len(rawIssuesMap) : rawIssuesMap[k].severity \in RawSeverities
  /\ (result.returned /\ result.rawIssues # Undefined) =>
       \A k \in 1 .. Len(result.rawIssues[1]) :
         result.rawIssues[1][k].severity \in RawSeverities

\* a completed run over a record with no raw finding, a passing and a failing
\* record with raw findings of both severities
C22_Witness ==
  /\ result.returned
  /\ result.success
  /\ result.summary.validRows = 2
  /\ result.summary.invalidRows = 1
  /\ result.rawIssues # Undefined
  /\ \E k \in 1 .. Len(result.rawIssues[1]) : result.rawIssues[1][k].severity = "info"
  /\ \E k \in 1 .. Len(result.rawIssues[1]) : result.rawIssues[1][k].severity = "warning"
  /\ \E r \in 1 .. Length(file) : At(file, r).rawFindings = << >>

\* the run under way is one of preValidateClient
PreRun ==
  pc \in { "preStart", "preParse", "preReport", "preLoop", "preYield", "preDone",
           "preFailed" }

\* the rows detectRawIssues has been called on so far
ScannedRows ==
  Min(Processed, IF PreRun THEN PRE_RAW_PREVIEW_ROWS ELSE RAW_PREVIEW_ROWS)

\* what detectRawIssues finds in row r: preValidateClient scans the record of
\* the file, validateClient the mapped record
ScannedFindings(r) ==
  IF ~PreRun /\ customMappings # Undefined THEN At(file, r).rawUnderMappings
  ELSE At(file, r).rawFindings

\* the finding an entry stands for: the only one with its field and problem
NumberOf(entry) ==
  2 * entry.field - (IF entry.problem = "Boolean as string" THEN 1 ELSE 0)

\* the findings of the first k rows, row by row
RECURSIVE FindingsUpTo(_)
FindingsUpTo(k) ==
  IF k = 0 THEN << >> ELSE FindingsUpTo(k - 1) \o ScannedFindings(k)

\* C23: raw issues are aggregated by (field, problem).  In every state of a
\* validateClient or preValidateClient run rawIssuesMap holds at most
\* MAX_RAW_ISSUES_PREVIEW entries, no two of them with the same field and
\* problem, and the count of each entry is the number of findings with its
\* field and problem in the rows scanned so far.
C23_RawIssuesAggregated ==
  LET scanned == FindingsUpTo(ScannedRows)
  IN  /\ Len(rawIssuesMap) <= MAX_RAW_ISSUES_PREVIEW
      /\ \A a \in DOMAIN rawIssuesMap :
           /\ Finding(NumberOf(rawIssuesMap[a])).field = rawIssuesMap[a].field
           /\ Finding(NumberOf(rawIssuesMap[a])).problem = rawIssuesMap[a].problem
           /\ rawIssuesMap[a].count =
                Cardinality({ j \in DOMAIN scanned : scanned[j] = NumberOf(rawIssuesMap[a]) })
           /\ \A b \in DOMAIN rawIssuesMap :
                a # b => NumberOf(rawIssuesMap[a]) # NumberOf(rawIssuesMap[b])

\* the map is full, a finding of a scanned row has found no place in it, and
\* an entry stands for several findings
C23_Witness ==
  /\ Len(rawIssuesMap) = MAX_RAW_ISSUES_PREVIEW
  /\ \E a \in DOMAIN rawIssuesMap : rawIssuesMap[a].count >= 2
  /\ \E r \in 1 .. ScannedRows : \E j \in DOMAIN ScannedFindings(r) :
       \A a \in DOMAIN rawIssuesMap : NumberOf(rawIssuesMap[a]) # ScannedFindings(r)[j]

\* C24: when preValidateClient finds the signal aborted at a record boundary,
\* that step emits one progress snapshot with isCancelled true and isComplete
\* false and returns the partial result, as validateClient does.
C24_PreCancelEmitsSnapshot ==
  [][ (pc = "preLoop" /\ i < Length(allRecords) /\ aborted) =>
        /\ Len(snapshots') = Len(snapshots) + 1
        /\ Last(snapshots').isCancelled
        /\ ~Last(snapshots').isComplete
        /\ Last(snapshots').processedRows = i
        /\ result'.returned
        /\ result'.analyzedRows = i ]_vars

\* no snapshot preValidateClient emits has isCancelled true
PreNeverReportsCancelled ==
  PreRun => \A k \in 1 .. Len(snapshots) : ~snapshots[k].isCancelled

\* preValidateClient has returned a partial result on cancellation
PreCancelled ==
  /\ pc = "preDone"
  /\ aborted
  /\ result.returned
  /\ result.analyzedRows < result.totalRows
  /\ result.analyzedRows >= 1

\* the validateRecord call has returned
Validated == schemaStep = "returned"

ErrorIssues(res) == { j \in DOMAIN res.issues : res.issues[j].severity = "error" }

\* C25: validateRecord of the OpenAI validator returns isValid true exactly
\* when it returns no issue of severity error, at least one issue whenever
\* isValid is false, the data the schema parsed exactly when isValid is true,
\* and every issue it returns carries the row it was called with.
C25_ValidateRecordResult ==
  Validated =>
    LET res == validation[1]
    IN  /\ res.isValid <=> ErrorIssues(res) = {}
        /\ ~res.isValid => Len(res.issues) >= 1
        /\ res.isValid <=> res.data # Undefined
        /\ res.isValid => (parsed[1].success /\ res.data = Defined(parsed[1].data))
        /\ res.row = schemaRow
        /\ \A j \in DOMAIN res.issues : res.issues[j].row = schemaRow

\* a record failed by a field rule and a cross-field rule at once, on row 2
C25_Witness ==
  /\ Validated
  /\ schemaRow = 2
  /\ ~validation[1].isValid
  /\ \E j \in DOMAIN validation[1].issues : validation[1].issues[j].field = "item_id"
  /\ \E j \in DOMAIN validation[1].issues : validation[1].issues[j].field = ""

\* every modelled field of the record passes its own rule
FieldsPass ==
  /\ schemaRecord["is_eligible_checkout"] # Str("yes")
  /\ Has(schemaRecord, "item_id")
  /\ schemaRecord["item_id"] # Str("")

\* the cross-field rules the record violates, read off the record
CheckoutEligible == schemaRecord["is_eligible_checkout"] \in { Bool(TRUE), Str("true") }

With(field) == Has(schemaRecord, field) /\ schemaRecord[field] # Str("")

ViolatedRules ==
  { rule \in { "checkout", "pre_order", "sale_price" } :
      \/ /\ rule = "checkout"
         /\ CheckoutEligible
         /\ ~(With("seller_privacy_policy") /\ With("seller_tos") /\ With("store_name"))
      \/ /\ rule = "pre_order"
         /\ schemaRecord["availability"] = Str("pre_order")
         /\ ~With("availability_date")
      \/ /\ rule = "sale_price"
         /\ Has(schemaRecord, "sale_price")
         /\ Amount(schemaRecord["sale_price"]) > Amount(schemaRecord["price"]) }

IssuesOfRule(res, rule) ==
  { j \in DOMAIN res.issues : res.issues[j].message = RefinementMessage(rule) }

\* C26: for a record whose fields all pass their own rules, each violated
\* cross-field rule (checkout-eligible without seller_privacy_policy,
\* seller_tos and store_name; pre_order without availability_date; sale_price
\* above price) yields exactly one issue, of severity error, and nothing else
\* yields an issue; a record with is_eligible_checkout false, boolean or the
\* string "false", gets no issue from the checkout rule.
C26_CrossFieldRules ==
  (Validated /\ FieldsPass) =>
    LET res == validation[1]
    IN  /\ Len(res.issues) = Cardinality(ViolatedRules)
        /\ \A rule \in ViolatedRules : Cardinality(IssuesOfRule(res, rule)) = 1
        /\ \A j \in DOMAIN res.issues : res.issues[j].severity = "error"
        /\ res.isValid <=> ViolatedRules = {}
        /\ schemaRecord["is_eligible_checkout"] \in { Bool(FALSE), Str("false") } =>
             IssuesOfRule(res, "checkout") = {}

\* a record with is_eligible_checkout true, seller_tos absent and nothing
\* else amiss has failed with exactly one issue
C26_Witness ==
  /\ Validated
  /\ FieldsPass
  /\ schemaRecord["is_eligible_checkout"] = Bool(TRUE)
  /\ ~Has(schemaRecord, "seller_tos")
  /\ With("seller_privacy_policy")
  /\ With("store_name")
  /\ ViolatedRules = { "checkout" }
  /\ ~validation[1].isValid
  /\ Len(validation[1].issues) = 1

\* a record violating the three rules at once has failed with three issues
AllRulesViolated ==
  /\ Validated
  /\ FieldsPass
  /\ Cardinality(ViolatedRules) = 3
  /\ Len(validation[1].issues) = 3

\* the modelled fields that accept a native number or boolean or its string
\* form
DualFields == { "is_eligible_checkout", "return_window", "accepts_returns", "review_count" }

\* C27: for every schema field that accepts either a native number (or
\* boolean) or its string form, the data returned for a valid record holds
\* the typed value, never the string: return_window "14", review_count "3"
\* and accepts_returns "true" come back as number or boolean.
C27_TypedValuesReturned ==
  (Validated /\ validation[1].isValid) =>
    \A field \in DualFields \cap DOMAIN validation[1].data[1] :
      validation[1].data[1][field].type \in { "number", "boolean" }

\* the same for the fields whose schema ends in a transform
TransformedFieldsTyped ==
  (Validated /\ validation[1].isValid) =>
    /\ validation[1].data[1]["is_eligible_checkout"].type = "boolean"
    /\ validation[1].data[1]["return_window"].type = "number"

\* a valid record given return_window "14" has come back with the number 14
ReturnWindowTyped ==
  /\ Validated
  /\ validation[1].isValid
  /\ schemaRecord["return_window"] = Str("14")
  /\ validation[1].data[1]["return_window"] = Num("14")

\* both invocations have returned
BothReturned ==
  /\ pc \in { "done", "preDone" }
  /\ suspended # Undefined
  /\ suspended.pc \in { "done", "preDone" }

\* What an invocation with the arguments of v gives when it runs alone and
\* stops after k rows, read off v.file, v.chunkSize, v.customMappings and
\* v.includeValidRecords.
MappedOf(v, r) ==
  IF v.customMappings = Undefined THEN At(v.file, r)
  ELSE [At(v.file, r) EXCEPT !.zodIssues = At(v.file, r).underMappings,
                             !.rawFindings = At(v.file, r).rawUnderMappings]

PassingUpTo(v, k) == { r \in 1 .. k : MappedOf(v, r).zodIssues = 0 }

RECURSIVE AloneIssues(_, _)
AloneIssues(v, k) ==
  IF k = 0 THEN << >>
  ELSE AloneIssues(v, k - 1) \o
       [j \in 1 .. MappedOf(v, k).zodIssues |->
          [row |-> k, field |-> j, severity |-> "error"]]

RECURSIVE AloneValidRecords(_, _)
AloneValidRecords(v, k) ==
  IF k = 0 THEN EmptyArray
  ELSE IF MappedOf(v, k).zodIssues = 0
       THEN Push(AloneValidRecords(v, k - 1), MappedOf(v, k))
       ELSE AloneValidRecords(v, k - 1)

RECURSIVE AloneRawIssues(_, _)
AloneRawIssues(v, k) ==
  IF k = 0 THEN << >>
  ELSE PreviewRawIssues(AloneRawIssues(v, k - 1), RAW_PREVIEW_ROWS, MappedOf(v, k), k)

AloneSnapshot(v, processed, complete, cancelled) ==
  [totalRows |-> Length(v.file), processedRows |-> processed,
   validRows |-> Cardinality(PassingUpTo(v, processed)),
   invalidRows |-> processed - Cardinality(PassingUpTo(v, processed)),
   errorCount |-> Len(AloneIssues(v, processed)), warningCount |-> 0,
   isComplete |-> complete, isCancelled |-> cancelled]

EveryRows(v) == IF v.chunkSize < 1 THEN 1 ELSE v.chunkSize

AloneSnapshots(v, k, success) ==
  << AloneSnapshot(v, 0, FALSE, FALSE) >>
  \o [m \in 1 .. (k \div EveryRows(v)) |->
        AloneSnapshot(v, m * EveryRows(v), FALSE, FALSE)]
  \o << IF success THEN AloneSnapshot(v, Length(v.file), TRUE, FALSE)
        ELSE AloneSnapshot(v, k, FALSE, TRUE) >>

AloneResult(v, k, success) ==
  [returned |-> TRUE, success |-> success,
   summary |->
     [totalRows |-> Length(v.file),
      validRows |-> Cardinality(PassingUpTo(v, k)),
      invalidRows |-> k - Cardinality(PassingUpTo(v, k)),
      errorCount |-> Len(AloneIssues(v, k)), warningCount |-> 0,
      issues |-> Take(AloneIssues(v, k), MAX_ISSUES_RETURNED),
      validRecords |-> IF v.includeValidRecords
                       THEN Defined(ArrayTake(AloneValidRecords(v, k),
                                              MAX_VALID_RECORDS_STORED))
                       ELSE Undefined],
   rawIssues |-> IF success THEN RawIssuesOrUndefined(AloneRawIssues(v, k))
                 ELSE Defined(AloneRawIssues(v, k)),
   truncated |-> (success => Len(AloneIssues(v, k)) > MAX_ISSUES_RETURNED),
   validRecordsTruncated |->
     (success /\ v.includeValidRecords
      /\ Cardinality(PassingUpTo(v, k)) > MAX_VALID_RECORDS_STORED)]

\* the invocation has returned what it returns alone, after the snapshots it
\* emits alone, and is cancelled only by its own signal
AsAlone(v) ==
  v.pc = "done" =>
    LET k == Last(v.snapshots).processedRows
    IN  /\ v.snapshots = AloneSnapshots(v, k, v.result.success)
        /\ v.result = AloneResult(v, k, v.result.success)
        /\ v.result.success <=> k = Length(v.file)
        /\ ~v.result.success => v.abortedAt # "never"

\* the same for preValidateClient, which validates and scans the records as
\* they stand in the file and emits no snapshot when cancelled
RECURSIVE AlonePreRawIssues(_, _)
AlonePreRawIssues(v, k) ==
  IF k = 0 THEN << >>
  ELSE PreviewRawIssues(AlonePreRawIssues(v, k - 1), PRE_RAW_PREVIEW_ROWS,
                        At(v.file, k), k)

PrePassingUpTo(v, k) == { r \in 1 .. k : At(v.file, r).zodIssues = 0 }

AlonePreSnapshot(v, processed, complete) ==
  [totalRows |-> Length(v.file), processedRows |-> processed,
   validRows |-> Cardinality(PrePassingUpTo(v, processed)),
   invalidRows |-> processed - Cardinality(PrePassingUpTo(v, processed)),
   isComplete |-> complete, isCancelled |-> FALSE]

AlonePreSnapshots(v, k) ==
  << AlonePreSnapshot(v, 0, FALSE) >>
  \o [m \in 1 .. (k \div EveryRows(v)) |->
        AlonePreSnapshot(v, m * EveryRows(v), FALSE)]
  \o IF k = Length(v.file) THEN << AlonePreSnapshot(v, k, TRUE) >> ELSE << >>

AlonePreResult(v, k) ==
  [returned |-> TRUE, rejected |-> FALSE, totalRows |-> Length(v.file),
   analyzedRows |-> k, validRows |-> Cardinality(PrePassingUpTo(v, k)),
   invalidRows |-> k - Cardinality(PrePassingUpTo(v, k)),
   rawIssues |-> AlonePreRawIssues(v, k)]

PreAsAlone(v) ==
  v.pc = "preDone" =>
    LET k == v.result.analyzedRows
    IN  /\ v.snapshots = AlonePreSnapshots(v, k)
        /\ v.result = AlonePreResult(v, k)
        /\ k < Length(v.file) => v.abortedAt # "never"

Invocations == { Locals } \cup (IF suspended = Undefined THEN { } ELSE { suspended })

\* C28: two invocations, of validateClient or preValidateClient, whose
\* executions interleave at their awaits share no mutable state.  Each emits
\* the snapshot sequence and returns the result it emits and returns when
\* run alone with its own file, options and cancellation point; an
\* invocation whose signal is not aborted completes whatever happens to the
\* other one.
C28_InvocationsIndependent ==
  \A v \in Invocations :
    /\ AsAlone(v)
    /\ PreAsAlone(v)
    /\ (v.pc = "done" /\ v.abortedAt = "never") => v.result.success
    /\ (v.pc = "preDone" /\ v.abortedAt = "never") =>
         v.result.analyzedRows = Length(v.file)

\* one invocation was cancelled after its first chunk while the other one,
\* resumed in between, has completed with raw issues of its own
C28_Witness ==
  /\ BothReturned
  /\ pc = "done"
  /\ suspended.pc = "done"
  /\ ~result.success
  /\ Len(snapshots) >= 3
  /\ suspended.result.success
  /\ suspended.abortedAt = "never"
  /\ Len(suspended.snapshots) >= 3
  /\ suspended.result.rawIssues # result.rawIssues
  /\ suspended.result.rawIssues # Undefined

\* a preValidateClient invocation was cancelled while a validateClient
\* invocation, resumed in between, has completed
PreCancelledBesideCompleted ==
  /\ BothReturned
  /\ pc = "preDone"
  /\ result.analyzedRows < Length(file)
  /\ result.analyzedRows >= 1
  /\ suspended.pc = "done"
  /\ suspended.result.success
  /\ Len(suspended.snapshots) >= 3

\* the arguments of an invocation: validator, records and options
ArgumentsOf(v) ==
  << v.validatorId, v.fileName, v.file, v.sourceFault, v.chunkSize,
     v.includeValidRecords, v.customMappings >>

\* the record boundary at which a returned validateClient run saw its signal
\* aborted, or "never"
CancelledBefore(v) ==
  IF v.result.success THEN << "never" >>
  ELSE << "row", Last(v.snapshots).processedRows + 1 >>

\* two validateClient runs with the same arguments whose signals were seen
\* aborted at the same point
SameRunTwice ==
  /\ pc = "done"
  /\ suspended # Undefined
  /\ suspended.pc = "done"
  /\ ArgumentsOf(Locals) = ArgumentsOf(suspended)
  /\ CancelledBefore(Locals) = CancelledBefore(suspended)

C30_IssuePrefixAndFullCounts ==
  LET full == SchemaIssueSequence(Processed)
  IN  /\ issues = Take(full, MAX_ISSUES_RETURNED)
      /\ Len(issues) = Min(MAX_ISSUES_RETURNED, Len(full))
      /\ errorCount = Cardinality({ j \in DOMAIN full : full[j].severity = "error" })
      /\ warningCount = Cardinality({ j \in DOMAIN full : full[j].severity = "warning" })
      /\ result.returned =>
           /\ result.summary.issues = Take(full, MAX_ISSUES_RETURNED)
           /\ result.summary.errorCount = errorCount
           /\ result.summary.warningCount = warningCount

\* a returned summary whose issue list stops in the middle of a record's
\* issues, with issues counted and not retained
C30_Witness ==
  /\ result.returned
  /\ Len(result.summary.issues) = MAX_ISSUES_RETURNED
  /\ result.summary.errorCount > MAX_ISSUES_RETURNED
  /\ Last(result.summary.issues).field < SchemaIssuesOfRow(Last(result.summary.issues).row)
  /\ Last(result.summary.issues).row < Processed

\* a record as the validator is to see it, read off the customMappings option
AsMapped(x) ==
  IF customMappings = Undefined THEN x
  ELSE [id |-> x.id, zodIssues |-> x.underMappings,
        underMappings |-> x.underMappings,
        rawFindings |-> x.rawUnderMappings,
        rawUnderMappings |-> x.rawUnderMappings]

\* n more copies of x behind the elements of an array
PushRun(array, x, n) ==
  IF n = 0 THEN array
  ELSE IF array # << >> /\ array[Len(array)].value = x
  THEN [array EXCEPT ![Len(array)].count = @ + n]
  ELSE Append(array, [value |-> x, count |-> n])

\* The canonical data of the valid records among the first k records of an
\* array, in source order, behind those of acc and as far as
\* MAX_VALID_RECORDS_STORED records go; read off the file run by run.
RECURSIVE ValidDataOfPrefix(_, _, _)
ValidDataOfPrefix(array, k, acc) ==
  IF array = << >> \/ k = 0 THEN acc
  ELSE LET n == Min(Head(array).count, k)
           x == AsMapped(Head(array).value)
           room == MAX_VALID_RECORDS_STORED - Length(acc)
       IN  ValidDataOfPrefix(Tail(array), k - n,
                             IF x.zodIssues = 0 THEN PushRun(acc, x, Min(n, room))
                             ELSE acc)

\* the number of valid records among the first k records of an array
RECURSIVE ValidCountOfPrefix(_, _)
ValidCountOfPrefix(array, k) ==
  IF array = << >> \/ k = 0 THEN 0
  ELSE LET n == Min(Head(array).count, k)
       IN  (IF AsMapped(Head(array).value).zodIssues = 0 THEN n ELSE 0)
           + ValidCountOfPrefix(Tail(array), k - n)

\* C31: with includeValidRecords set, validRecords is in every state, and in
\* the returned summary, the canonical data of the first
\* min(MAX_VALID_RECORDS_STORED, v) valid records in source order, v being the
\* number of valid records among the records processed; with
\* includeValidRecords false, summary.validRecords is absent and
\* validRecordsTruncated is false.
C31_ValidRecordsPrefix ==
  LET k == Processed
      v == ValidCountOfPrefix(file, k)
      expected == ValidDataOfPrefix(file, k, EmptyArray)
  IN  /\ includeValidRecords =>
           /\ validRecords = expected
           /\ Length(validRecords) = Min(MAX_VALID_RECORDS_STORED, v)
      /\ result.returned =>
           IF includeValidRecords
           THEN result.summary.validRecords = Defined(expected)
           ELSE /\ result.summary.validRecords = Undefined
                /\ ~result.validRecordsTruncated

\* a returned summary with MAX_VALID_RECORDS_STORED records retained, more
\* valid records processed, behind records that failed
C31_Witness ==
  /\ result.returned
  /\ includeValidRecords
  /\ result.summary.validRecords # Undefined
  /\ Length(result.summary.validRecords[1]) = MAX_VALID_RECORDS_STORED
  /\ result.summary.validRows > MAX_VALID_RECORDS_STORED
  /\ result.summary.invalidRows >= 1

\* the rows the run under way previews: 10 in validateClient, 20 in
\* preValidateClient
PreviewedRows == IF PreRun THEN 20 ELSE 10

\* the raw issues the run has returned
ReturnedRawIssues ==
  IF PreRun THEN result.rawIssues
  ELSE IF result.rawIssues = Undefined THEN << >> ELSE result.rawIssues[1]

\* C32: detectRawIssues is run on rows 1..10 in validateClient and on rows
\* 1..20 in preValidateClient, and on no later row: a step that processes a
\* record of the prefix calls it with that row, a step taken once the prefix
\* has been processed does not call it and leaves every entry and every count
\* of rawIssuesMap as it is, and the rawIssues returned are the entries as
\* they stood when the prefix was done.
C32_RawIssuesOfPrefixOnly ==
  [][/\ (Processed' = Processed + 1 /\ Processed < PreviewedRows) =>
          /\ called'.detectRawIssues # Undefined
          /\ called'.detectRawIssues[1].row = Processed'
     /\ (Processed' = Processed + 1 /\ Processed >= PreviewedRows) =>
          called'.detectRawIssues = Undefined
     /\ Processed >= PreviewedRows =>
          /\ rawIssuesMap' = rawIssuesMap
          /\ (result'.returned /\ ~result.returned) =>
               ReturnedRawIssues' = rawIssuesMap]_vars

\* preValidateClient has returned from a file whose row 21 holds a finding
\* that no row before it holds: the finding is not among the raw issues
C32_Witness ==
  /\ PreRun
  /\ result.returned
  /\ Processed > PRE_RAW_PREVIEW_ROWS
  /\ At(file, PRE_RAW_PREVIEW_ROWS + 1).rawFindings # << >>
  /\ \A k \in 1 .. Len(result.rawIssues) :
       NumberOf(result.rawIssues[k]) # At(file, PRE_RAW_PREVIEW_ROWS + 1).rawFindings[1]

\* the same for validateClient and row 11
RowElevenNotPreviewed ==
  /\ ~PreRun
  /\ result.returned
  /\ Processed > RAW_PREVIEW_ROWS
  /\ At(file, RAW_PREVIEW_ROWS + 1).rawFindings # << >>
  /\ \A k \in 1 .. Len(ReturnedRawIssues) :
       NumberOf(ReturnedRawIssues[k]) # At(file, RAW_PREVIEW_ROWS + 1).rawFindings[1]

\* detectRawIssues reported "Field a renamed to c"
RenameReported(a, c) ==
  /\ detected # Undefined
  /\ \E j \in 1 .. Len(detected[1]) :
       /\ detected[1][j].problem = "Field renamed to"
       /\ detected[1][j].field = a
       /\ detected[1][j].fixed = c

\* the first loop of normalizeRecord read the value of c from alias a (the
\* values of the raw records tell the fields apart)
TakenFrom(c, a) ==
  /\ Has(normalized, c)
  /\ Has(rawRecord, a)
  /\ normalized[c] = rawRecord[a]

DetectedAndResolved == detectStep = "returned" /\ step = "resolved"

\* C33: detectRawIssues reports "Field a renamed to c" exactly when
\* normalizeRecord, on the same record and alias table, takes the value of
\* canonical field c from alias a.
C33_RenameFindingsAgree ==
  DetectedAndResolved =>
    \A c \in DOMAIN aliases :
      \A j \in 1 .. Len(aliases[c]) :
        RenameReported(aliases[c][j], c) <=> TakenFrom(c, aliases[c][j])

\* what does hold: with the canonical field absent, the alias the value is
\* taken from is among the reported ones
TakenAliasReported ==
  DetectedAndResolved =>
    \A c \in DOMAIN aliases :
      \A j \in 1 .. Len(aliases[c]) :
        (TakenFrom(c, aliases[c][j]) /\ ~Has(rawRecord, c))
          => RenameReported(aliases[c][j], c)

\* a rename is reported for an alias whose value normalizeRecord does not use
ReportedButNotTaken ==
  /\ DetectedAndResolved
  /\ \E c \in DOMAIN aliases :
       \E j \in 1 .. Len(aliases[c]) :
         RenameReported(aliases[c][j], c) /\ ~TakenFrom(c, aliases[c][j])

\* normalizeRecord uses an alias for which no rename is reported
TakenButNotReported ==
  /\ DetectedAndResolved
  /\ \E c \in DOMAIN aliases :
       \E j \in 1 .. Len(aliases[c]) :
         TakenFrom(c, aliases[c][j]) /\ ~RenameReported(aliases[c][j], c)

Max(a, b) == IF a >= b THEN a ELSE b

\* k = m * c for some integer m
IsMultiple(k, c) == \E m \in (0 - k) .. k : k = m * c

\* the run was cancelled and the signal was set during a chunk-boundary yield
\* or inside a progress callback
CancelledFromYieldOrCallback ==
  /\ result.returned
  /\ ~result.success
  /\ Last(snapshots).isCancelled
  /\ abortedAt \in { "yield", "callback" }

\* the snapshot emitted just before the cancellation snapshot has its
\* processedRows
SameAsSnapshotBefore ==
  /\ Len(snapshots) >= 2
  /\ snapshots[Len(snapshots) - 1].processedRows = Last(snapshots).processedRows

\* C34 as stated: if the signal is only set during a chunk-boundary yield or
\* inside a progress callback, processedRows at cancellation is 0 or a
\* multiple of chunkSize and equals the processedRows of the snapshot
\* emitted just before.
C34_CancelledAtMultipleOfChunkSize ==
  CancelledFromYieldOrCallback =>
    /\ Last(snapshots).processedRows = 0
         \/ IsMultiple(Last(snapshots).processedRows, chunkSize)
    /\ SameAsSnapshotBefore

\* C34, amended: the same with chunkSize read as at least 1: for chunkSize
\* of 0 or less every record boundary is a chunk boundary, so processedRows
\* at cancellation may be any count; it always equals the processedRows of
\* the snapshot emitted just before.
C34_CancelledAtChunkBoundary ==
  CancelledFromYieldOrCallback =>
    /\ IsMultiple(Last(snapshots).processedRows, Max(chunkSize, 1))
    /\ SameAsSnapshotBefore
    /\ Last(snapshots).processedRows = Processed

\* cancelled behind the second record of a chunk of two, the signal set
\* during the yield
C34_Witness ==
  /\ CancelledFromYieldOrCallback
  /\ abortedAt = "yield"
  /\ chunkSize = 2
  /\ Last(snapshots).processedRows = 2
  /\ Length(file) > 2

\* the signal set inside the callback of a chunk report
CancelledFromCallback ==
  /\ CancelledFromYieldOrCallback
  /\ abortedAt = "callback"
  /\ Last(snapshots).processedRows >= 1

\* chunkSize 0: cancelled after one record
CancelledAtOneOfZero ==
  /\ CancelledFromYieldOrCallback
  /\ chunkSize = 0
  /\ Last(snapshots).processedRows = 1

\* the counters of a snapshot or summary are those of error-only validation
ErrorsOnly(counts) ==
  /\ counts.warningCount = 0
  /\ counts.errorCount >= counts.invalidRows
  /\ counts.errorCount = 0 <=> counts.invalidRows = 0

\* C35: with the OpenAI validator, every snapshot and the returned summary of
\* validateClient have warningCount = 0, errorCount >= invalidRows, and
\* errorCount = 0 exactly when invalidRows = 0.
C35_ErrorsOnly ==
  /\ \A k \in 1 .. Len(snapshots) : ErrorsOnly(snapshots[k])
  /\ result.returned => ErrorsOnly(result.summary)

\* a returned summary with an invalid row of several errors behind a valid row
C35_Witness ==
  /\ validatorId = "openai"
  /\ result.returned
  /\ result.summary.invalidRows >= 1
  /\ result.summary.validRows >= 1
  /\ result.summary.errorCount > result.summary.invalidRows
  /\ Len(snapshots) >= 3

\* validateRecord of the schema, field by field: every issue is an error and
\* a record is invalid exactly when it has an issue
ValidationIssuesAreErrors ==
  validation # Undefined =>
    /\ \A j \in DOMAIN validation[1].issues : validation[1].issues[j].severity = "error"
    /\ validation[1].isValid <=> validation[1].issues = << >>

\* the row has been through detectRawIssues and validateRecord
RowDetectedAndValidated == detected # Undefined /\ validation # Undefined

\* detectRawIssues reported the value of field f as a boolean that will convert
CoercionReported(f) ==
  \E j \in DOMAIN detected[1] :
    /\ detected[1][j].problem = "Boolean as string will convert to"
    /\ detected[1][j].field = f

\* validateRecord reported a schema error on field f
SchemaErrorOn(f) ==
  \E k \in DOMAIN validation[1].issues : validation[1].issues[k].field = f

BooleanFieldNames == { BOOLEAN_FIELDS[j] : j \in DOMAIN BOOLEAN_FIELDS }

\* C36: on the same row a boolean-coercion raw issue never coincides with a
\* schema error on that field: every string detectRawIssues reports as a
\* boolean that will convert is accepted by the schema for that field.
C36_ConvertibleBooleansAccepted ==
  RowDetectedAndValidated =>
    \A f \in BooleanFieldNames : ~(CoercionReported(f) /\ SchemaErrorOn(f))

\* what does hold: the strings "true" and "false" as written are reported and
\* accepted
ExactBooleanStringsAccepted ==
  RowDetectedAndValidated =>
    \A f \in BooleanFieldNames :
      (Has(schemaRecord, f) /\ schemaRecord[f] \in { Str("true"), Str("false") })
        => CoercionReported(f) /\ ~SchemaErrorOn(f)

\* "1" is reported as a boolean that will convert to true and rejected
CoercionPromisedAndRejected ==
  /\ RowDetectedAndValidated
  /\ schemaRecord["is_eligible_checkout"] = Str("1")
  /\ CoercionReported("is_eligible_checkout")
  /\ SchemaErrorOn("is_eligible_checkout")
  /\ ~validation[1].isValid

\* a short return window is reported next to a coercion that is accepted
CoercionAcceptedNextToShortWindow ==
  /\ RowDetectedAndValidated
  /\ Len(detected[1]) = 3
  /\ validation[1].isValid

\* no two source headers of a mapping have the same target
TargetsDistinct(mapping) ==
  \A h1, h2 \in DOMAIN mapping : h1 # h2 => mapping[h1] # mapping[h2]

\* C37: the mapping FieldMappingDialog hands to onConfirm never assigns the
\* same target to two source headers, whatever the headers and whatever the
\* mapping changes made before.
C37_ConfirmedTargetsDistinct ==
  confirmed # Undefined => TargetsDistinct(confirmed[1])

\* the rows of the dialog that have this target
RowsWithTarget(list, name) == { j \in DOMAIN list : list[j].targetField = name }

\* what does hold: a change of one mapping gives no target to a second row
ChangeAddsNoDuplicate ==
  [][(dialogStep = "open" /\ dialogStep' = "open") =>
       \A j \in DOMAIN TargetFields :
         Cardinality(RowsWithTarget(dialogMappings', TargetFields[j]))
           <= Max(1, Cardinality(RowsWithTarget(dialogMappings, TargetFields[j])))]_vars

\* the headers price and cost are both confirmed with target price, no
\* mapping having been changed
AutoMappedTwice ==
  /\ confirmed # Undefined
  /\ DOMAIN confirmed[1] = { "price", "cost" }
  /\ confirmed[1]["price"] = "price"
  /\ confirmed[1]["cost"] = "price"
  /\ \A j \in DOMAIN dialogMappings : dialogMappings[j].autoMapped

\* a confirmed mapping with distinct targets, one picked by the user
ConfirmedAfterChange ==
  /\ confirmed # Undefined
  /\ TargetsDistinct(confirmed[1])
  /\ Cardinality(DOMAIN confirmed[1]) = 3
  /\ \E j \in DOMAIN dialogMappings :
       ~dialogMappings[j].autoMapped /\ dialogMappings[j].targetField # Null

\* the second call of normalizeRecord has returned; rawRecord is what the
\* first call returned
ReturnedTwice == callNumber = 2 /\ step = "returned"

NoChainedAlias == \A c \in DOMAIN aliases : ~IsAlias(aliases, c)

\* the first call returned no field that has a default with the value ""
NoDefaultedFieldEmpty ==
  defaults = Undefined
  \/ \A k \in DOMAIN defaults[1] : Has(rawRecord, k) => rawRecord[k] # ""

EmptiedThenDefaulted ==
  /\ ReturnedTwice
  /\ NoChainedAlias
  /\ Has(rawRecord, "price") /\ rawRecord["price"] = ""
  /\ Has(normalized, "price") /\ normalized["price"] = "d"

\* a value that the first call put under cost is copied to price by the second
ChainFollowedTwice ==
  /\ ReturnedTwice
  /\ ~NoChainedAlias
  /\ ~Has(rawRecord, "price")
  /\ Has(normalized, "price")

\* the run has ended Completed or Cancelled
CompletedOrCancelled ==
  /\ pc \in { "done", "preDone" }
  /\ result.returned
  /\ Last(snapshots).isComplete \/ aborted

\* C39: for every finite record stream and every chunkSize (zero and negative
\* included) validateClient and preValidateClient terminate: each yield being
\* resumed, the run eventually ends Completed or Cancelled, and each call of
\* validateRecord is on the record behind the ones processed so far, so that
\* no record is validated twice.
C39_Terminates ==
  /\ <>CompletedOrCancelled
  /\ [][called' # called =>
          /\ Processed' = Processed + 1
          /\ Processed' <= Length(file)
          /\ called'.validateRecord[1].row = Processed'
          /\ called'.validateRecord[1].record = At(file, Processed')]_vars

\* a run with chunkSize 0 that has completed behind a yield after each of
\* its records
C39_Witness ==
  /\ chunkSize = 0
  /\ Length(file) >= 2
  /\ pc = "done"
  /\ result.returned
  /\ Last(snapshots).isComplete
  /\ Processed = Length(file)
  /\ Len(snapshots) = Length(file) + 2

\* the same for preValidateClient with a negative chunkSize
PreCompletedWithNegativeChunk ==
  /\ chunkSize < 0
  /\ Length(file) >= 2
  /\ pc = "preDone"
  /\ result.returned
  /\ Processed = Length(file)

====
